---- MODULE Spec2Model ----
(***************************************************************************)
(* Structural Health Monitoring: anomaly detection and alert dispatch.     *)
(*                                                                         *)
(* The module models these parts of the repository:                        *)
(*   - SensorService.check_thresholds      (services/sensor_service.py)    *)
(*   - AlertService.check_and_send_alerts  (services/alert_service.py)     *)
(*   - MLService train / predict / retrain (services/ml_service.py)        *)
(*   - the training query of MLService     (services/ml_service.py)        *)
(*   - sensor_data, one request            (routes/main.py, models.py)     *)
(*                                                                         *)
(* Units.  Measurements are scaled to integers: vibration and strain in    *)
(* tenths (2.5 is 25, 0.7 is 7), temperature in degrees.  Time is counted  *)
(* in whole hours of datetime.utcnow().                                    *)
(***************************************************************************)
EXTENDS Integers, Sequences, FiniteSets, TLC

VARIABLES
    ev_reading,      \* the reading handed to check_thresholds
    ev_result,       \* <<>>, or <<what check_thresholds returned for it>>
    now,             \* datetime.utcnow(), in hours
    config,          \* current_app.config and the Twilio client it yields
    readings,        \* table sensor_readings: id -> row
    alert_logs,      \* table alert_logs: the rows in insertion order
    pc,              \* where each worker stands in check_and_send_alerts
    call,            \* each worker's current (or last) call: arguments, locals, result
    handled,         \* per reading: some call for it returned its delivery results
    ncalls,          \* the calls of check_and_send_alerts made so far
    recent_count,    \* rows of sensor_readings within the 7-day training horizon
    ml_models,       \* table ml_models: the rows in insertion order
    svc,             \* the MLService instance: self.model, self.scaler
    fitted,          \* which scaler and model objects have been fitted
    runs,            \* the training runs that created a scaler so far
    mlpc,            \* where each worker stands in its MLService call
    mc,              \* each worker's MLService call: its locals
    ml_result,       \* what the MLService call that returned last returned
    mlcalls,         \* the calls of the MLService made so far
    rq,              \* the request handled by sensor_data: position, locals, response
    tq,              \* the training query: rows by timestamp, last selection, result
    st,              \* the call of get_alert_statistics: position, counts, result
    rd,              \* the readings query: stored rows, parameters, response
    info,            \* what get_model_info returned last
    fv               \* a reading and the feature vectors built from it

(***************************************************************************)
(* Bounds of the model.                                                    *)
(***************************************************************************)
\* how far below the warning floor and above the critical floor the sampled
\* measurements reach
Margin == 1

\* stored readings that alerts are dispatched for
NumReadings == 2

\* calls of check_and_send_alerts
MaxCalls == 2

\* hours the clock runs while alerts are dispatched
MaxHours == 2

\* rows of sensor_readings the training horizon may hold
MaxReadingRows == 50

\* training runs that get as far as creating a scaler
MaxRuns == 2

\* calls of the MLService in one behaviour
MaxMLCalls == 3

\* steps of the clock while models are trained, and hours per step
MaxSteps == 2
MaxDays == 8
MaxBatches == 3
MaxTrainings == 1
StepHours == 24

\* concurrent request workers
Workers == {"w1", "w2"}

(***************************************************************************)
(* config.py                                                               *)
(***************************************************************************)
\* Config.ALERT_THRESHOLDS, in the units above
ALERT_THRESHOLDS ==
    [vibration   |-> [warning |-> 20, critical |-> 25],
     strain      |-> [warning |-> 5,  critical |-> 7],
     temperature |-> [warning |-> 35, critical |-> 40]]

\* thresholds.items(): a dict iterates in insertion order
ThresholdItems == <<"vibration", "strain", "temperature">>

SensorTypes == {"vibration", "strain", "temperature"}

(***************************************************************************)
(* SensorService.check_thresholds                                          *)
(***************************************************************************)
\* f"{sensor_type.title()} critical: {value} >= {limits['critical']}"
BreachMessage(sensor_type, kind, value, limit) ==
    [sensor |-> sensor_type, kind |-> kind, value |-> value, limit |-> limit]

\* BreachKind without the guard on the level found so far: a warning breach
\* met after a critical one lowers the level again
BreachKind_Downgrade(value, limits, alert_level) ==
    IF value >= limits.critical THEN "critical"
    ELSE IF value >= limits.warning THEN "warning"
    ELSE "none"

\* BreachKind with the warning floor compared strictly
BreachKind_StrictWarning(value, limits, alert_level) ==
    IF value >= limits.critical THEN "critical"
    ELSE IF value > limits.warning /\ alert_level # "critical" THEN "warning"
    ELSE "none"

\* the branch one iteration of the loop takes: "critical", "warning" or "none"
BreachKind(value, limits, alert_level) ==
    IF value >= limits.critical THEN "critical"
    ELSE IF value >= limits.warning /\ alert_level # "critical" THEN "warning"
    ELSE "none"

\* one iteration of the loop body over (alert_level, messages)
CheckStep(acc, sensor_type, reading) ==
    LET value  == reading[sensor_type]
        limits == ALERT_THRESHOLDS[sensor_type]
        kind   == BreachKind(value, limits, acc.level)
    IN  IF kind = "none" THEN acc
        ELSE [level    |-> kind,
              messages |-> Append(acc.messages,
                                  BreachMessage(sensor_type, kind, value, limits[kind]))]

RECURSIVE CheckLoop(_, _, _, _)
CheckLoop(items, i, acc, reading) ==
    IF i > Len(items) THEN acc
    ELSE CheckLoop(items, i + 1, CheckStep(acc, items[i], reading), reading)

\* the loop over a given iteration order of the table
CheckThresholdsOver(items, reading) ==
    CheckLoop(items, 1, [level |-> "normal", messages |-> <<>>], reading)

\* check_thresholds walking the table in another order once the audit log
\* holds rows
check_thresholds_ByLog(reading) ==
    CheckThresholdsOver(IF alert_logs = <<>> THEN ThresholdItems
                        ELSE <<ThresholdItems[3], ThresholdItems[2],
                               ThresholdItems[1]>>,
                        reading)

check_thresholds(reading) == CheckThresholdsOver(ThresholdItems, reading)

(***************************************************************************)
(* Evaluation of sampled readings                                          *)
(***************************************************************************)
SampleValues(sensor_type) ==
    (ALERT_THRESHOLDS[sensor_type].warning - Margin) ..
    (ALERT_THRESHOLDS[sensor_type].critical + Margin)

SampleReadings ==
    [vibration   : SampleValues("vibration"),
     strain      : SampleValues("strain"),
     temperature : SampleValues("temperature")]

evalVars == <<ev_reading, ev_result>>

EvalInit ==
    /\ ev_reading \in SampleReadings
    /\ ev_result = <<>>

\* alert_level, messages = sensor_service.check_thresholds(reading)
Evaluate ==
    /\ ev_result = <<>>
    /\ ev_result' = <<check_thresholds(ev_reading)>>
    /\ UNCHANGED ev_reading

\* the next reading to evaluate
NextReading ==
    /\ ev_result # <<>>
    /\ ev_reading' \in SampleReadings
    /\ ev_result' = <<>>

(***************************************************************************)
(* AlertService                                                            *)
(***************************************************************************)
\* "Don't send more than 5 alerts of same level in 1 hour"
FatigueCap == 5
FatigueHours == 1

\* the recipient lists of check_and_send_alerts
email_recipients == <<"admin@example.com">>
sms_recipients == <<"+1234567890">>

\* readings stored and alerted before the ones that are dispatched here, and
\* the readings that are dispatched here
EarlierIds == 1..(FatigueCap - 1)
ReadingIds == FatigueCap..(FatigueCap + NumReadings - 1)

AlertLevels == {"warning", "critical"}

\* AlertLog(reading_id, alert_type, alert_level, recipient, success,
\* error_message); sent_at defaults to datetime.utcnow()
AlertLog(reading_id, alert_type, alert_level, recipient, success, utcnow) ==
    [reading_id  |-> reading_id,
     alert_type  |-> alert_type,
     alert_level |-> alert_level,
     recipient   |-> recipient,
     success     |-> success,
     has_error   |-> ~success,
     sent_at     |-> utcnow]

\* _log_alert writing over the newest row instead of adding one
log_alert_Overwrite(logs, row, commit_ok) ==
    IF ~commit_ok THEN logs
    ELSE IF logs = <<>> THEN <<row>>
    ELSE [logs EXCEPT ![Len(logs)] = row]

\* _log_alert: db.session.add + commit; a failed commit is rolled back and
\* leaves no row
log_alert(logs, row, commit_ok) ==
    IF commit_ok THEN Append(logs, row) ELSE logs

\* the query of _check_alert_fatigue without its filter on success
RecentAlerts_CountsFailures(logs, alert_level, utcnow) ==
    {k \in DOMAIN logs :
        /\ logs[k].alert_level = alert_level
        /\ logs[k].sent_at >= utcnow - FatigueHours}

\* the query of _check_alert_fatigue without its filter on sent_at
RecentAlerts_NoWindow(logs, alert_level, utcnow) ==
    {k \in DOMAIN logs : logs[k].alert_level = alert_level /\ logs[k].success}

\* the rows the query of _check_alert_fatigue counts
RecentAlerts(logs, alert_level, utcnow) ==
    {k \in DOMAIN logs :
        /\ logs[k].alert_level = alert_level
        /\ logs[k].sent_at >= utcnow - FatigueHours
        /\ logs[k].success}

\* _check_alert_fatigue with its exception handler answering True
check_alert_fatigue_FailClosed(logs, alert_level, utcnow, query_ok) ==
    IF query_ok
    THEN Cardinality(RecentAlerts(logs, alert_level, utcnow)) >= FatigueCap
    ELSE TRUE

\* _check_alert_fatigue with the comparison of the count made strict
check_alert_fatigue_Strict(logs, alert_level, utcnow, query_ok) ==
    IF query_ok
    THEN Cardinality(RecentAlerts(logs, alert_level, utcnow)) > FatigueCap
    ELSE FALSE

\* _check_alert_fatigue: TRUE when the alert is to be suppressed; a query that
\* raises is caught and answers False
check_alert_fatigue(logs, alert_level, utcnow, query_ok) ==
    IF query_ok
    THEN Cardinality(RecentAlerts(logs, alert_level, utcnow)) >= FatigueCap
    ELSE FALSE

\* EarlyReturn without the test of reading.alert_sent
EarlyReturn_NoSentCheck(reading, alert_level) ==
    IF alert_level = "normal" THEN "No alerts needed" ELSE "pending"

\* EarlyReturn with the test of reading.alert_sent made first
EarlyReturn_SentFirst(reading, alert_level) ==
    IF reading.alert_sent THEN "Alert already sent for this reading"
    ELSE IF alert_level = "normal" THEN "No alerts needed"
    ELSE "pending"

\* the two early returns of check_and_send_alerts
EarlyReturn(reading, alert_level) ==
    IF alert_level = "normal" THEN "No alerts needed"
    ELSE IF reading.alert_sent THEN "Alert already sent for this reading"
    ELSE "pending"

\* the audit log left by the earlier readings: nothing, or one successful
\* email each at the given level
EarlierLogs(alert_level) ==
    [k \in EarlierIds |->
        AlertLog(k, "email", alert_level, email_recipients[1], TRUE, 0)]

NoCall ==
    [reading |-> FatigueCap, level |-> "none", gate |-> "none", i |-> 1,
     result |-> "none"]

dispatchVars == <<now, config, readings, alert_logs, pc, call, handled, ncalls>>

\* the audit log when the fatigue gate is shut for a level: the earlier
\* readings have left FatigueCap successful emails at that level
FullLog(alert_level) ==
    [k \in 1..FatigueCap |->
        AlertLog(k - 1, "email", alert_level, email_recipients[1], TRUE, 0)]

\* the dispatch starts with the gate shut for one level
ReopenInit ==
    /\ now = 0
    /\ config \in [MAIL_USERNAME : {TRUE}, twilio_client : BOOLEAN]
    /\ readings = [r \in ReadingIds |-> [alert_sent |-> FALSE]]
    /\ \E l \in AlertLevels : alert_logs = FullLog(l)
    /\ pc = [w \in Workers |-> "idle"]
    /\ call = [w \in Workers |-> NoCall]
    /\ handled = [r \in ReadingIds |-> FALSE]
    /\ ncalls = 0

DispatchInit ==
    /\ now = 0
    /\ config \in [MAIL_USERNAME : BOOLEAN, twilio_client : BOOLEAN]
    /\ readings = [r \in ReadingIds |-> [alert_sent |-> FALSE]]
    /\ \/ alert_logs = <<>>
       \/ /\ config.MAIL_USERNAME
          /\ \E l \in AlertLevels : alert_logs = EarlierLogs(l)
    /\ pc = [w \in Workers |-> "idle"]
    /\ call = [w \in Workers |-> NoCall]
    /\ handled = [r \in ReadingIds |-> FALSE]
    /\ ncalls = 0

\* a worker that has returned from its call holds nothing but the result
Returned(result) == [NoCall EXCEPT !.result = result]

\* check_and_send_alerts(reading, alert_level, messages) up to the two early
\* returns; the row of the reading is read here
Begin(w, r, alert_level) ==
    /\ pc[w] = "idle"
    /\ ncalls < MaxCalls
    /\ ncalls' = ncalls + 1
    /\ LET early == EarlyReturn(readings[r], alert_level)
       IN  /\ call' = [call EXCEPT ![w] =
                  [reading |-> r, level |-> alert_level, gate |-> "none",
                   i |-> 1, result |-> early]]
           /\ pc' = [pc EXCEPT ![w] = IF early = "pending" THEN "fatigue" ELSE "idle"]
    /\ UNCHANGED <<now, config, readings, alert_logs, handled>>

\* if self._check_alert_fatigue(alert_level): return
CheckFatigue(w, query_ok) ==
    /\ pc[w] = "fatigue"
    /\ LET fatigued == check_alert_fatigue(alert_logs, call[w].level, now, query_ok)
       IN  /\ call' = [call EXCEPT ![w] =
                  IF fatigued
                  THEN Returned("Alert fatigue protection activated")
                  ELSE [call[w] EXCEPT
                            !.gate = IF query_ok THEN "allowed" ELSE "error"]]
           /\ pc' = [pc EXCEPT ![w] = IF fatigued THEN "idle" ELSE "email"]
    /\ UNCHANGED <<now, config, readings, alert_logs, handled, ncalls>>

\* AfterEmail with the SMS loop entered at every level
AfterEmail_AlwaysSms(alert_level) == "sms"

\* where the worker goes after the email loop
AfterEmail(alert_level) == IF alert_level = "critical" THEN "sms" ELSE "mark"

\* send_email_alert / send_sms_alert for one recipient: nothing is sent or
\* logged when the channel is not configured; otherwise the outcome of the
\* gateway is logged
send_alert(logs, configured, row, commit_ok) ==
    IF configured THEN log_alert(logs, row, commit_ok) ELSE logs

\* send_result with the exception of the gateway leaving the function
send_result_Raise(configured, gateway_ok) ==
    IF ~configured THEN "error" ELSE IF gateway_ok THEN "success" ELSE "raised"

\* what send_email_alert / send_sms_alert hands back to the loop: the
\* exception of the gateway is caught and returned as {"error": ...}
send_result(configured, gateway_ok) ==
    IF configured /\ gateway_ok THEN "success" ELSE "error"

\* one iteration of a loop over recipients: the attempt is made and logged,
\* and the loop goes on with the next recipient, or to the step after the
\* loop; an exception leaving the send would leave check_and_send_alerts
SendTo(w, alert_type, recipients, configured, after, gateway_ok, commit_ok) ==
    LET c    == call[w]
        row  == AlertLog(c.reading, alert_type, c.level, recipients[c.i],
                         gateway_ok, now)
        last == c.i = Len(recipients)
    IN  /\ alert_logs' = send_alert(alert_logs, configured, row, commit_ok)
        /\ IF send_result(configured, gateway_ok) = "raised"
           THEN /\ call' = [call EXCEPT ![w] = Returned("raised")]
                /\ pc' = [pc EXCEPT ![w] = "idle"]
           ELSE /\ call' = [call EXCEPT ![w].i = IF last THEN 1 ELSE @ + 1]
                /\ pc' = [pc EXCEPT ![w] = IF last THEN after ELSE alert_type]

\* one iteration of the email loop
SendEmail(w, gateway_ok, commit_ok) ==
    /\ pc[w] = "email"
    /\ SendTo(w, "email", email_recipients, config.MAIL_USERNAME,
              AfterEmail(call[w].level), gateway_ok, commit_ok)
    /\ UNCHANGED <<now, config, readings, handled, ncalls>>

\* one iteration of the SMS loop
SendSms(w, gateway_ok, commit_ok) ==
    /\ pc[w] = "sms"
    /\ SendTo(w, "sms", sms_recipients, config.twilio_client, "mark",
              gateway_ok, commit_ok)
    /\ UNCHANGED <<now, config, readings, handled, ncalls>>

\* mark_sent that clears the flag
mark_sent_Unset(reading, commit_ok) == [reading EXCEPT !.alert_sent = FALSE]

\* mark_sent that leaves the flag as it was
mark_sent_Forget(reading, commit_ok) == reading

\* the row of a reading after reading.alert_sent = True and the commit
mark_sent(reading, commit_ok) ==
    IF commit_ok THEN [reading EXCEPT !.alert_sent = TRUE] ELSE reading

\* reading.alert_sent = True; db.session.commit(); return.  A commit that
\* raises leaves the row as it was and the exception leaves
\* check_and_send_alerts
MarkSent(w, commit_ok) ==
    /\ pc[w] = "mark"
    /\ readings' = [readings EXCEPT
                       ![call[w].reading] = mark_sent(@, commit_ok)]
    /\ handled' = [handled EXCEPT ![call[w].reading] = @ \/ commit_ok]
    /\ call' = [call EXCEPT ![w] =
                   Returned(IF commit_ok THEN "alerts_sent" ELSE "raised")]
    /\ pc' = [pc EXCEPT ![w] = "idle"]
    /\ UNCHANGED <<now, config, alert_logs, ncalls>>

\* an hour passes
Tick ==
    /\ now < MaxHours
    /\ now' = now + 1
    /\ UNCHANGED <<config, readings, alert_logs, pc, call, handled, ncalls>>

(***************************************************************************)
(* MLService                                                               *)
(***************************************************************************)
\* "if len(readings) < 50"
MinTrainingRows == 50

\* Config.ML_TRAINING_DATA_SIZE and Config.ML_MODEL_RETRAIN_INTERVAL (hours)
ML_TRAINING_DATA_SIZE == 1000
ML_MODEL_RETRAIN_INTERVAL == 24

ModelTypes == {"IsolationForest", "OneClassSVM"}

\* the training query: the rows within the horizon, newest first, limited
training_rows(count) ==
    IF count < ML_TRAINING_DATA_SIZE THEN count ELSE ML_TRAINING_DATA_SIZE

\* the test on the number of rows with the floor one too low
insufficient_data_OffByOne(n) == n < MinTrainingRows - 1

\* if len(readings) < 50: return {"error": "Insufficient training data"}
insufficient_data(n) == n < MinTrainingRows

\* MLModel(model_name, model_type, training_data_size, model_params);
\* is_active defaults to True, created_at to datetime.utcnow()
MLModel(model_type, training_data_size, utcnow) ==
    [model_type         |-> model_type,
     training_data_size |-> training_data_size,
     created_at         |-> utcnow,
     is_active          |-> TRUE]

\* MLModel.query.filter_by(model_type, is_active=True)
\*     .order_by(created_at.desc()).first(): the index of the row, 0 for None
ActiveRows(models, model_type) ==
    {k \in DOMAIN models : models[k].model_type = model_type /\ models[k].is_active}

latest_model(models, model_type) ==
    IF ActiveRows(models, model_type) = {} THEN 0
    ELSE CHOOSE k \in ActiveRows(models, model_type) :
            \A j \in ActiveRows(models, model_type) :
                \/ models[j].created_at < models[k].created_at
                \/ (models[j].created_at = models[k].created_at /\ j <= k)

\* MLService.__init__: self.model = None, self.scaler = None (0 is None,
\* n > 0 is the object the n-th training run created)
NewMLService == [model |-> 0, scaler |-> 0]

NoMLCall ==
    [op |-> "none", kind |-> "IsolationForest", run |-> 0, latest |-> 0,
     scaler |-> 0, predicted_by |-> 0]

mlVars ==
    <<recent_count, ml_models, svc, fitted, runs, mlpc, mc, ml_result, mlcalls>>

\* no model has been trained and no call is under way
MLStart ==
    /\ ml_models = <<>>
    /\ svc = NewMLService
    /\ fitted = [scaler |-> {}, model |-> {}]
    /\ runs = 0
    /\ mlpc = [w \in Workers |-> "idle"]
    /\ mc = [w \in Workers |-> NoMLCall]
    /\ ml_result = "none"
    /\ mlcalls = 0

MLInit ==
    /\ recent_count = 0
    /\ MLStart

MLIdle == mlpc = [w \in Workers |-> "idle"]

\* worker w returns: it holds nothing of the call any more
MLReturn(w, result) ==
    /\ mc' = [mc EXCEPT ![w] = NoMLCall]
    /\ mlpc' = [mlpc EXCEPT ![w] = "idle"]
    /\ ml_result' = result

\* TrainFailed with predict_anomaly handing the error of the training run on
TrainFailed_Propagate(w, error) == MLReturn(w, error)

\* TrainFailed with predict_anomaly reporting an anomaly after a failed run
TrainFailed_Scored(w, error) == MLReturn(w, "scored")

\* what the caller of a training run does with its error: predict_anomaly
\* returns (False, 0.0), the others return the error
TrainFailed(w, error) ==
    MLReturn(w, IF mc[w].op = "predict" THEN "default" ELSE error)

\* SensorService.save_reading: one more row within the horizon
SaveReading ==
    /\ recent_count < MaxReadingRows
    /\ recent_count' = recent_count + 1
    /\ UNCHANGED <<ml_models, svc, fitted, runs, mlpc, mc, ml_result, mlcalls, now>>

\* the oldest row leaves the 7-day horizon of the training query
Expire ==
    /\ recent_count >= MinTrainingRows
    /\ recent_count' = recent_count - 1
    /\ UNCHANGED <<ml_models, svc, fitted, runs, mlpc, mc, ml_result, mlcalls, now>>

\* the training query and the test on its size (lines 49-59, 111-121)
TrainQuery(w) ==
    /\ mlpc[w] = "t_query"
    /\ IF insufficient_data(training_rows(recent_count))
       THEN TrainFailed(w, "Insufficient training data")
       ELSE /\ runs < MaxRuns
            /\ mc' = [mc EXCEPT ![w].latest = training_rows(recent_count)]
            /\ mlpc' = [mlpc EXCEPT ![w] = "t_scaler_new"]
            /\ UNCHANGED ml_result
    /\ UNCHANGED <<recent_count, ml_models, svc, fitted, runs, mlcalls, now>>

\* self.scaler = StandardScaler()
ScalerNew(w) ==
    /\ mlpc[w] = "t_scaler_new"
    /\ runs' = runs + 1
    /\ svc' = [svc EXCEPT !.scaler = runs + 1]
    /\ mc' = [mc EXCEPT ![w].run = runs + 1]
    /\ mlpc' = [mlpc EXCEPT ![w] = "t_scaler_fit"]
    /\ UNCHANGED <<recent_count, ml_models, fitted, ml_result, mlcalls, now>>

\* features_scaled = self.scaler.fit_transform(features): fits the object
\* self.scaler names at this moment; a fit that raises ends the run
ScalerFit(w, fit_ok) ==
    /\ mlpc[w] = "t_scaler_fit"
    /\ IF fit_ok
       THEN /\ fitted' = [fitted EXCEPT !.scaler = @ \cup {svc.scaler}]
            /\ mlpc' = [mlpc EXCEPT ![w] = "t_model_new"]
            /\ UNCHANGED <<mc, ml_result>>
       ELSE /\ TrainFailed(w, "error")
            /\ UNCHANGED fitted
    /\ UNCHANGED <<recent_count, ml_models, svc, runs, mlcalls, now>>

\* self.model = IsolationForest(...) / OneClassSVM(...)
ModelNew(w) ==
    /\ mlpc[w] = "t_model_new"
    /\ svc' = [svc EXCEPT !.model = mc[w].run]
    /\ mlpc' = [mlpc EXCEPT ![w] = "t_model_fit"]
    /\ UNCHANGED <<recent_count, ml_models, fitted, runs, mc, ml_result, mlcalls, now>>

\* self.model.fit(features_scaled)
ModelFit(w, fit_ok) ==
    /\ mlpc[w] = "t_model_fit"
    /\ IF fit_ok
       THEN /\ fitted' = [fitted EXCEPT !.model = @ \cup {svc.model}]
            /\ mlpc' = [mlpc EXCEPT ![w] = "t_save"]
            /\ UNCHANGED <<mc, ml_result>>
       ELSE /\ TrainFailed(w, "error")
            /\ UNCHANGED fitted
    /\ UNCHANGED <<recent_count, ml_models, svc, runs, mlcalls, now>>

\* db.session.add(model_record); db.session.commit(): the rows of ml_models
\* after a training run of the given type
save_model(models, model_type, training_data_size, utcnow, commit_ok) ==
    IF commit_ok
    THEN Append(models, MLModel(model_type, training_data_size, utcnow))
    ELSE models

\* the metadata row is written and the run returns; predict_anomaly goes on
\* to score
TrainSave(w, commit_ok) ==
    /\ mlpc[w] = "t_save"
    /\ ml_models' = save_model(ml_models, mc[w].kind, mc[w].latest, now, commit_ok)
    /\ IF ~commit_ok THEN TrainFailed(w, "error")
       ELSE IF mc[w].op = "predict"
       THEN /\ mlpc' = [mlpc EXCEPT ![w] = "p_scale"]
            /\ UNCHANGED <<mc, ml_result>>
       ELSE MLReturn(w, "trained")
    /\ UNCHANGED <<recent_count, svc, fitted, runs, mlcalls, now>>

\* train_isolation_forest / train_one_class_svm called through /api/ml/train
StartTrain(w, model_type) ==
    /\ mlpc[w] = "idle"
    /\ mlcalls < MaxMLCalls
    /\ mlcalls' = mlcalls + 1
    /\ mc' = [mc EXCEPT ![w] = [NoMLCall EXCEPT !.op = "train", !.kind = model_type]]
    /\ mlpc' = [mlpc EXCEPT ![w] = "t_query"]
    /\ UNCHANGED <<recent_count, ml_models, svc, fitted, runs, ml_result, now>>

\* predict_anomaly, line 172: without a model or a scaler it trains first
StartPredict(w) ==
    /\ mlpc[w] = "idle"
    /\ mlcalls < MaxMLCalls
    /\ mlcalls' = mlcalls + 1
    /\ mc' = [mc EXCEPT ![w] = [NoMLCall EXCEPT !.op = "predict"]]
    /\ mlpc' = [mlpc EXCEPT ![w] =
                   IF svc.model = 0 \/ svc.scaler = 0 THEN "t_query" ELSE "p_scale"]
    /\ UNCHANGED <<recent_count, ml_models, svc, fitted, runs, ml_result, now>>

\* features_scaled = self.scaler.transform(features): a scaler that is not
\* fitted raises, and predict_anomaly returns (False, 0.0)
PredictScale(w) ==
    /\ mlpc[w] = "p_scale"
    /\ IF svc.scaler \in fitted.scaler
       THEN /\ mc' = [mc EXCEPT ![w].scaler = svc.scaler]
            /\ mlpc' = [mlpc EXCEPT ![w] = "p_predict"]
            /\ UNCHANGED ml_result
       ELSE MLReturn(w, "default")
    /\ UNCHANGED <<recent_count, ml_models, svc, fitted, runs, mlcalls, now>>

\* prediction = self.model.predict(features_scaled)[0]
PredictLabel(w) ==
    /\ mlpc[w] = "p_predict"
    /\ IF svc.model \in fitted.model
       THEN /\ mc' = [mc EXCEPT ![w].predicted_by = svc.model]
            /\ mlpc' = [mlpc EXCEPT ![w] = "p_score"]
            /\ UNCHANGED ml_result
       ELSE MLReturn(w, "default")
    /\ UNCHANGED <<recent_count, ml_models, svc, fitted, runs, mlcalls, now>>

\* score = self.model.decision_function(features_scaled)[0]; return
PredictScore(w) ==
    /\ mlpc[w] = "p_score"
    /\ MLReturn(w, IF svc.model \in fitted.model THEN "scored" ELSE "default")
    /\ UNCHANGED <<recent_count, ml_models, svc, fitted, runs, mlcalls, now>>

\* retrain_due with a model of exactly the interval's age counted as due
retrain_due_AtLeast(created_at, utcnow) ==
    utcnow - created_at >= ML_MODEL_RETRAIN_INTERVAL

\* age > Config.ML_MODEL_RETRAIN_INTERVAL
retrain_due(created_at, utcnow) == utcnow - created_at > ML_MODEL_RETRAIN_INTERVAL

\* retrain_if_needed up to its query of the latest active model; a query that
\* raises returns the error
StartRetrain(w, query_ok) ==
    /\ mlpc[w] = "idle"
    /\ mlcalls < MaxMLCalls
    /\ mlcalls' = mlcalls + 1
    /\ LET latest == latest_model(ml_models, "IsolationForest")
           c      == [NoMLCall EXCEPT !.op = "retrain", !.latest = latest]
       IN  IF ~query_ok THEN MLReturn(w, "error")
           ELSE IF latest = 0
           THEN /\ mc' = [mc EXCEPT ![w] = c]
                /\ mlpc' = [mlpc EXCEPT ![w] = "t_query"]
                /\ UNCHANGED ml_result
           ELSE IF retrain_due(ml_models[latest].created_at, now)
           THEN /\ mc' = [mc EXCEPT ![w] = c]
                /\ mlpc' = [mlpc EXCEPT ![w] = "r_deactivate"]
                /\ UNCHANGED ml_result
           ELSE MLReturn(w, "Model is up to date")
    /\ UNCHANGED <<recent_count, ml_models, svc, fitted, runs, now>>

\* latest_model.is_active = False; db.session.commit(); then it trains.  A
\* commit that raises returns the error
Deactivate(w, commit_ok) ==
    /\ mlpc[w] = "r_deactivate"
    /\ IF commit_ok
       THEN /\ ml_models' = [ml_models EXCEPT ![mc[w].latest].is_active = FALSE]
            /\ mlpc' = [mlpc EXCEPT ![w] = "t_query"]
            /\ UNCHANGED <<mc, ml_result>>
       ELSE /\ MLReturn(w, "error")
            /\ UNCHANGED ml_models
    /\ UNCHANGED <<recent_count, svc, fitted, runs, mlcalls, now>>

\* ml_service = MLService(): a request builds a new instance
NewService ==
    /\ MLIdle
    /\ svc # NewMLService
    /\ svc' = NewMLService
    /\ UNCHANGED <<recent_count, ml_models, fitted, runs, mlpc, mc, ml_result,
                   mlcalls, now>>

\* time passes between the requests
Advance ==
    /\ now < MaxSteps * StepHours
    /\ now' = now + StepHours
    /\ UNCHANGED mlVars

(***************************************************************************)
(* The training query of train_isolation_forest                            *)
(***************************************************************************)
\* timedelta(days=7), in hours
TrainingHorizon == 168

\* the timestamps rows are stored with: one per day of the model
Stamps == {d * StepHours : d \in 0..MaxDays}

\* the numbers of rows that are stored at one timestamp
BatchSizes == {1, MinTrainingRows - 1, ML_TRAINING_DATA_SIZE - MinTrainingRows,
               ML_TRAINING_DATA_SIZE}

RECURSIVE SumOver(_, _)
\* the sum of f over the set S
SumOver(f, S) ==
    IF S = {} THEN 0
    ELSE LET x == CHOOSE y \in S : TRUE
         IN  f[x] + SumOver(f, S \ {x})

\* len(readings)
Size(selection) == SumOver(selection, DOMAIN selection)

\* filter(SensorReading.timestamp >= cutoff_date): rows per timestamp
within_horizon(rows, utcnow) ==
    [t \in DOMAIN rows |-> IF t >= utcnow - TrainingHorizon THEN rows[t] ELSE 0]

\* the query with order_by(timestamp.asc()): the oldest rows first
training_query_Oldest(rows, utcnow) ==
    LET eligible == within_horizon(rows, utcnow)
    IN  [t \in DOMAIN rows |->
            LET before == SumOver(eligible, {s \in DOMAIN rows : s < t})
                left   == ML_TRAINING_DATA_SIZE - before
            IN  IF left <= 0 THEN 0
                ELSE IF eligible[t] < left THEN eligible[t] ELSE left]

\* SensorReading.query.filter(timestamp >= cutoff_date)
\*     .order_by(timestamp.desc()).limit(ML_TRAINING_DATA_SIZE).all():
\* how many rows of each timestamp the query returns
training_query(rows, utcnow) ==
    LET eligible == within_horizon(rows, utcnow)
    IN  [t \in DOMAIN rows |->
            LET before == SumOver(eligible, {s \in DOMAIN rows : s > t})
                left   == ML_TRAINING_DATA_SIZE - before
            IN  IF left <= 0 THEN 0
                ELSE IF eligible[t] < left THEN eligible[t] ELSE left]

NoTrainQuery ==
    [rows |-> [t \in Stamps |-> 0], batches |-> 0, trainings |-> 0,
     selected |-> [t \in Stamps |-> 0], result |-> "none"]

\* what the steps of the training query leave alone
TrainQueryFrame ==
    /\ UNCHANGED evalVars
    /\ UNCHANGED <<config, readings, alert_logs, pc, call, handled, ncalls>>
    /\ UNCHANGED <<recent_count, svc, fitted, runs, mlpc, mc, ml_result, mlcalls>>
    /\ UNCHANGED <<rq, st, rd, info, fv>>

\* save_reading, n times at the present timestamp
TqSave(n) ==
    /\ tq.batches < MaxBatches
    /\ tq' = [tq EXCEPT !.rows[now] = @ + n, !.batches = @ + 1]
    /\ UNCHANGED <<now, ml_models>>
    /\ TrainQueryFrame

\* a day passes
TqAdvance ==
    /\ now < MaxDays * StepHours
    /\ now' = now + StepHours
    /\ UNCHANGED <<tq, ml_models>>
    /\ TrainQueryFrame

\* train_isolation_forest: the query, the test on its size, the fit and the
\* MLModel row with training_data_size = len(readings)
TqTrain(fit_ok, commit_ok) ==
    /\ tq.trainings < MaxTrainings
    /\ LET selected == training_query(tq.rows, now)
           n        == Size(selected)
           result   == IF insufficient_data(n) THEN "Insufficient training data"
                       ELSE IF fit_ok /\ commit_ok THEN "trained"
                       ELSE "error"
       IN  /\ tq' = [tq EXCEPT !.trainings = @ + 1, !.selected = selected,
                               !.result = result]
           /\ ml_models' =
                  IF insufficient_data(n) \/ ~fit_ok THEN ml_models
                  ELSE save_model(ml_models, "IsolationForest", n, now, commit_ok)
    /\ UNCHANGED now
    /\ TrainQueryFrame

TrainQueryNext ==
    \/ \E n \in BatchSizes : TqSave(n)
    \/ TqAdvance
    \/ \E f \in BOOLEAN, c \in BOOLEAN : TqTrain(f, c)

(***************************************************************************)
(* sensor_data: one request through scoring, thresholds and dispatch       *)
(***************************************************************************)
\* the worker that handles the request, and the id of the reading it saves:
\* the first of ReadingIds
RequestWorker == "w1"
RequestReading == FatigueCap

\* the measurements of the readings that requests are made with: every
\* sampled vibration, strain below its warning floor, temperature just below
\* and on its warning floor
RequestReadings ==
    {r \in SampleReadings :
        /\ r.strain = ALERT_THRESHOLDS.strain.warning - 1
        /\ r.temperature >= ALERT_THRESHOLDS.temperature.warning - 1
        /\ r.temperature <= ALERT_THRESHOLDS.temperature.warning}

\* an attribute that holds None is <<>>, one that holds x is <<x>>
None == <<>>

\* SensorReading(timestamp=..., vibration=..., strain=..., temperature=...):
\* the object as the constructor leaves it.  The Column defaults are applied
\* by the INSERT, not by the constructor: the attributes that were not
\* passed hold None until the object is flushed
SensorReading(timestamp, vibration, strain, temperature) ==
    [id            |-> None,
     timestamp     |-> timestamp,
     vibration     |-> <<vibration>>,
     strain        |-> <<strain>>,
     temperature   |-> <<temperature>>,
     is_anomaly    |-> None,
     anomaly_score |-> None,
     alert_level   |-> None,
     alert_sent    |-> None]

\* Column(default=...): the value the INSERT writes for an attribute
OrDefault(attribute, default) ==
    IF attribute = None THEN default ELSE attribute[1]

\* db.session.add(reading); db.session.commit(): the row of sensor_readings.
\* Its alert_sent column is readings[id].alert_sent
insert(obj, id, utcnow) ==
    [id            |-> id,
     timestamp     |-> OrDefault(obj.timestamp, utcnow),
     vibration     |-> obj.vibration[1],
     strain        |-> obj.strain[1],
     temperature   |-> obj.temperature[1],
     is_anomaly    |-> OrDefault(obj.is_anomaly, FALSE),
     anomaly_score |-> OrDefault(obj.anomaly_score, 0),
     alert_level   |-> OrDefault(obj.alert_level, "normal")]

\* (False, 0.0), and the pairs a fitted model returns: the label is -1
\* exactly when the decision function is negative
DefaultPair == [is_anomaly |-> FALSE, anomaly_score |-> 0]
ScoredPairs ==
    {[is_anomaly |-> TRUE, anomaly_score |-> -1],
     [is_anomaly |-> FALSE, anomaly_score |-> 1]}

\* with_prediction setting the alert level as well
with_prediction_SetsLevel(row, pair) ==
    [row EXCEPT !.is_anomaly = pair.is_anomaly,
                !.anomaly_score = pair.anomaly_score,
                !.alert_level = IF pair.is_anomaly THEN "critical" ELSE "normal"]

\* reading.is_anomaly = is_anomaly; reading.anomaly_score = score
with_prediction(row, pair) ==
    [row EXCEPT !.is_anomaly = pair.is_anomaly,
                !.anomaly_score = pair.anomaly_score]

\* with_level storing a flag in place of the level
with_level_Flag(row, alert_level) ==
    [row EXCEPT !.alert_level = IF alert_level = "normal" THEN "normal" ELSE "alert"]

\* reading.alert_level = alert_level
with_level(row, alert_level) == [row EXCEPT !.alert_level = alert_level]

\* SensorReading.to_dict
to_dict(row, alert_sent) ==
    [id            |-> row.id,
     timestamp     |-> row.timestamp,
     vibration     |-> row.vibration,
     strain        |-> row.strain,
     temperature   |-> row.temperature,
     is_anomaly    |-> row.is_anomaly,
     anomaly_score |-> row.anomaly_score,
     alert_level   |-> row.alert_level,
     alert_sent    |-> alert_sent]

\* response_data = reading.to_dict(); response_data['alert_messages'] =
\* messages; response_data.pop('timestamp', None)
response_data(row, alert_sent, messages) ==
    LET d == to_dict(row, alert_sent)
    IN  [k \in (DOMAIN d \ {"timestamp"}) \cup {"alert_messages"} |->
            IF k = "alert_messages" THEN messages ELSE d[k]]

\* before the reading is constructed
NoRequest ==
    [pc |-> "start", obj |-> <<>>, row |-> <<>>, anomaly |-> "default",
     response |-> <<>>]

\* jsonify(response_data): the row of the reading with the messages
Response(anomaly, result, row, alert_sent) ==
    [status |-> 200, anomaly |-> anomaly, alert_level |-> result.level,
     alert_messages |-> result.messages,
     body |-> response_data(row, alert_sent, result.messages)]

\* jsonify({'error': 'Failed to generate sensor data'}), 500
ErrorResponse ==
    [status |-> 500, anomaly |-> "none", alert_level |-> "none",
     alert_messages |-> <<>>,
     body |-> [error |-> "Failed to generate sensor data"]]

\* except Exception: the handler answers 500
RequestFails == rq' = [rq EXCEPT !.pc = "done", !.response = <<ErrorResponse>>]

RequestInit ==
    /\ rq = NoRequest
    /\ ev_reading \in RequestReadings
    /\ ev_result = <<>>
    /\ recent_count \in {0, MinTrainingRows - 1}
    /\ MLStart

\* what the steps of the three parts leave alone, the request apart
EvalFrame ==
    UNCHANGED dispatchVars /\ UNCHANGED mlVars /\ UNCHANGED <<tq, st, rd, info, fv>>

DispatchFrame ==
    UNCHANGED evalVars /\ UNCHANGED mlVars /\ UNCHANGED <<tq, st, rd, info, fv>>

MLFrame ==
    /\ UNCHANGED evalVars
    /\ UNCHANGED <<config, readings, alert_logs, pc, call, handled, ncalls, tq>>
    /\ UNCHANGED <<st, rd, info, fv>>

\* save_reading: reading = SensorReading(timestamp=..., vibration=...,
\* strain=..., temperature=...) from the generated sensor_data
ReqNew ==
    /\ rq.pc = "start"
    /\ rq' = [rq EXCEPT !.pc = "save",
                        !.obj = <<SensorReading(<<now>>, ev_reading.vibration,
                                                ev_reading.strain,
                                                ev_reading.temperature)>>]
    /\ UNCHANGED <<mlVars, now>>
    /\ MLFrame

\* save_reading: db.session.add(reading); db.session.commit().  A failing
\* commit is rolled back and raised again
ReqSave(commit_ok) ==
    /\ rq.pc = "save"
    /\ IF commit_ok
       THEN /\ SaveReading
            /\ rq' = [rq EXCEPT !.pc = "service",
                                !.row = <<insert(rq.obj[1], RequestReading, now)>>]
       ELSE /\ RequestFails
            /\ UNCHANGED <<mlVars, now>>
    /\ MLFrame

\* ml_service = MLService()
ReqService ==
    /\ rq.pc = "service"
    /\ svc' = NewMLService
    /\ rq' = [rq EXCEPT !.pc = "score"]
    /\ UNCHANGED <<recent_count, ml_models, fitted, runs, mlpc, mc, ml_result,
                   mlcalls, now>>
    /\ MLFrame

\* update_reading_with_prediction calls predict_anomaly
ReqScore ==
    /\ rq.pc = "score"
    /\ StartPredict(RequestWorker)
    /\ rq' = [rq EXCEPT !.pc = "scoring"]
    /\ MLFrame

\* the steps of predict_anomaly and of the training run it may start
ReqScoring ==
    /\ rq.pc = "scoring"
    /\ \/ TrainQuery(RequestWorker)
       \/ ScalerNew(RequestWorker)
       \/ \E ok \in BOOLEAN : ScalerFit(RequestWorker, ok)
       \/ ModelNew(RequestWorker)
       \/ \E ok \in BOOLEAN : ModelFit(RequestWorker, ok)
       \/ \E ok \in BOOLEAN : TrainSave(RequestWorker, ok)
       \/ PredictScale(RequestWorker)
       \/ PredictLabel(RequestWorker)
       \/ PredictScore(RequestWorker)
    /\ UNCHANGED rq
    /\ MLFrame

\* update_reading_with_prediction with its exception handler removed
update_result_Raise(commit_ok, pair) == IF commit_ok THEN pair ELSE "raised"

\* update_reading_with_prediction: what the reading it returns holds. A
\* failing commit is logged and rolled back, and the row keeps the column
\* defaults
update_result(commit_ok, pair) == IF commit_ok THEN pair ELSE "default"

\* reading.is_anomaly, reading.anomaly_score = the pair; db.session.commit()
ReqUpdate(commit_ok, pair) ==
    /\ rq.pc = "scoring"
    /\ mlpc[RequestWorker] = "idle"
    /\ LET outcome == update_result(commit_ok, ml_result)
       IN  IF outcome = "raised"
           THEN RequestFails
           ELSE rq' = [rq EXCEPT
                          !.pc = "thresholds",
                          !.anomaly = outcome,
                          !.row = <<with_prediction(
                                      @[1], IF outcome = "scored" THEN pair
                                            ELSE DefaultPair)>>]
    /\ UNCHANGED <<mlVars, now>>
    /\ MLFrame

\* alert_level, messages = check_thresholds(reading)
ReqThresholds ==
    /\ rq.pc = "thresholds"
    /\ Evaluate
    /\ rq' = [rq EXCEPT !.pc = "commit"]
    /\ EvalFrame

\* reading.alert_level = alert_level; db.session.commit(); then the
\* dispatch, unless the level is normal
ReqCommit(commit_ok) ==
    /\ rq.pc = "commit"
    /\ IF commit_ok
       THEN rq' = [rq EXCEPT !.pc = IF ev_result[1].level = "normal"
                                    THEN "respond" ELSE "dispatch",
                             !.row = <<with_level(@[1], ev_result[1].level)>>]
       ELSE RequestFails
    /\ UNCHANGED evalVars
    /\ EvalFrame

\* alert_service.check_and_send_alerts(reading, alert_level, messages)
ReqDispatch ==
    /\ rq.pc = "dispatch"
    /\ Begin(RequestWorker, RequestReading, ev_result[1].level)
    /\ rq' = [rq EXCEPT !.pc = "dispatching"]
    /\ DispatchFrame

\* the steps of check_and_send_alerts
ReqDispatching ==
    /\ rq.pc = "dispatching"
    /\ \/ \E q \in BOOLEAN : CheckFatigue(RequestWorker, q)
       \/ \E g \in BOOLEAN, c \in BOOLEAN : SendEmail(RequestWorker, g, c)
       \/ \E g \in BOOLEAN, c \in BOOLEAN : SendSms(RequestWorker, g, c)
       \/ \E c \in BOOLEAN : MarkSent(RequestWorker, c)
    /\ UNCHANGED rq
    /\ DispatchFrame

\* check_and_send_alerts has returned, or its exception arrives in the
\* handler
ReqDispatched ==
    /\ rq.pc = "dispatching"
    /\ pc[RequestWorker] = "idle"
    /\ IF call[RequestWorker].result = "raised"
       THEN RequestFails
       ELSE rq' = [rq EXCEPT !.pc = "respond"]
    /\ UNCHANGED dispatchVars
    /\ DispatchFrame

\* response_data = reading.to_dict(); response_data['alert_messages'] =
\* messages; return jsonify(response_data)
ReqRespond ==
    /\ rq.pc = "respond"
    /\ rq' = [rq EXCEPT !.pc = "done",
                        !.response =
                            <<Response(rq.anomaly, ev_result[1], rq.row[1],
                                       readings[RequestReading].alert_sent)>>]
    /\ UNCHANGED evalVars
    /\ EvalFrame

(***************************************************************************)
(* services/alert_service.py: get_alert_statistics                         *)
(***************************************************************************)
\* timedelta(days=1), in hours
StatsWindow == 24

\* the six counts, in the order in which they are queried
StatsQueries ==
    <<"total_alerts", "successful_alerts", "email_alerts", "sms_alerts",
      "critical_alerts", "warning_alerts">>

\* the filter each query adds to AlertLog.sent_at >= yesterday
Counted(row, query) ==
    CASE query = "total_alerts"      -> TRUE
      [] query = "successful_alerts" -> row.success
      [] query = "email_alerts"      -> row.alert_type = "email"
      [] query = "sms_alerts"        -> row.alert_type = "sms"
      [] query = "critical_alerts"   -> row.alert_level = "critical"
      [] query = "warning_alerts"    -> row.alert_level = "warning"

\* AlertLog.query.filter(AlertLog.sent_at >= yesterday, ...).count()
count_alerts(logs, yesterday, query) ==
    Cardinality({k \in DOMAIN logs :
                    logs[k].sent_at >= yesterday /\ Counted(logs[k], query)})

\* round(successful_alerts / total_alerts * 100, 1) if total_alerts > 0 else 0,
\* in tenths of a percent (no quotient of fewer than 16 rows lies halfway
\* between two tenths)
success_rate(successful_alerts, total_alerts) ==
    IF total_alerts > 0
    THEN (2000 * successful_alerts + total_alerts) \div (2 * total_alerts)
    ELSE 0

\* the dictionary get_alert_statistics returns from its six counts
statistics(counts) ==
    [total_alerts      |-> counts.total_alerts,
     successful_alerts |-> counts.successful_alerts,
     failed_alerts     |-> counts.total_alerts - counts.successful_alerts,
     email_alerts      |-> counts.email_alerts,
     sms_alerts        |-> counts.sms_alerts,
     critical_alerts   |-> counts.critical_alerts,
     warning_alerts    |-> counts.warning_alerts,
     success_rate      |-> success_rate(counts.successful_alerts,
                                        counts.total_alerts)]

NoCounts ==
    [total_alerts |-> 0, successful_alerts |-> 0, email_alerts |-> 0,
     sms_alerts |-> 0, critical_alerts |-> 0, warning_alerts |-> 0]

\* except Exception: every entry is 0
ZeroStatistics == statistics(NoCounts)

\* no call of get_alert_statistics has been made: i is the query to make
\* next, 0 outside the call
NoStats == [i |-> 0, yesterday |-> 0, counts |-> NoCounts, result |-> <<>>]

\* what the steps of get_alert_statistics leave alone
StatsFrame ==
    /\ UNCHANGED evalVars
    /\ UNCHANGED dispatchVars
    /\ UNCHANGED mlVars
    /\ UNCHANGED <<rq, tq, rd, info, fv>>

\* yesterday = datetime.utcnow() - timedelta(days=1)
StatsBegin ==
    /\ st = NoStats
    /\ st' = [st EXCEPT !.i = 1, !.yesterday = now - StatsWindow]
    /\ StatsFrame

\* one of the six count queries: each reads the rows committed at the moment
\* it runs; a query that raises ends the call with the dictionary of zeros
StatsQuery(query_ok) ==
    /\ st.i \in DOMAIN StatsQueries
    /\ IF query_ok
       THEN st' = [st EXCEPT
                      !.i = @ + 1,
                      !.counts[StatsQueries[st.i]] =
                          count_alerts(alert_logs, st.yesterday, StatsQueries[st.i])]
       ELSE st' = [st EXCEPT !.i = 0, !.result = <<ZeroStatistics>>]
    /\ StatsFrame

\* return {...}
StatsReturn ==
    /\ st.i = Len(StatsQueries) + 1
    /\ st' = [st EXCEPT !.i = 0, !.result = <<statistics(st.counts)>>]
    /\ StatsFrame

\* an alert written more than a day ago
OldLog ==
    <<AlertLog(1, "email", "critical", email_recipients[1], TRUE,
               0 - StatsWindow - 1)>>

\* alerts are dispatched with both channels configured; the audit log is
\* empty or holds an old row
StatsInit ==
    /\ now = 0
    /\ config = [MAIL_USERNAME |-> TRUE, twilio_client |-> TRUE]
    /\ readings = [r \in ReadingIds |-> [alert_sent |-> FALSE]]
    /\ alert_logs \in {<<>>, OldLog}
    /\ pc = [w \in Workers |-> "idle"]
    /\ call = [w \in Workers |-> NoCall]
    /\ handled = [r \in ReadingIds |-> FALSE]
    /\ ncalls = 0
    /\ st = NoStats

StatsIdle == st = NoStats

(***************************************************************************)
(* services/ml_service.py: get_model_info                                  *)
(***************************************************************************)
\* calls of get_model_info in one behaviour
MaxInfoCalls == 2

\* no call of get_model_info has returned yet
NoInfo == [calls |-> 0, error |-> "none", model |-> <<>>]

\* get_model_info of a service instance: an instance without a model answers
\* "No model loaded" without looking at the store; otherwise the latest
\* active row of self.model_type ('IsolationForest'), "No model metadata
\* found" when there is none, the error when the query raises
get_model_info(service, models, query_ok) ==
    IF service.model = 0 THEN [error |-> "No model loaded", model |-> <<>>]
    ELSE IF ~query_ok THEN [error |-> "error", model |-> <<>>]
    ELSE IF latest_model(models, "IsolationForest") = 0
    THEN [error |-> "No model metadata found", model |-> <<>>]
    ELSE [error |-> "none",
          model |-> <<models[latest_model(models, "IsolationForest")]>>]

\* what a call of get_model_info leaves alone
InfoFrame ==
    /\ UNCHANGED evalVars
    /\ UNCHANGED dispatchVars
    /\ UNCHANGED mlVars
    /\ UNCHANGED <<rq, tq, st, rd, fv>>

\* the value of info after a call has returned the result
InfoReturned(result) ==
    [calls |-> info.calls + 1, error |-> result.error, model |-> result.model]

\* routes/api.py model_info and routes/main.py statistics:
\* ml_service = MLService(); ml_service.get_model_info()
ModelInfoRoute(query_ok) ==
    /\ info.calls < MaxInfoCalls
    /\ info' = InfoReturned(get_model_info(NewMLService, ml_models, query_ok))
    /\ InfoFrame

\* get_model_info of the instance that trains and scores
ModelInfoOfService(query_ok) ==
    /\ info.calls < MaxInfoCalls
    /\ info' = InfoReturned(get_model_info(svc, ml_models, query_ok))
    /\ InfoFrame

(***************************************************************************)
(* services/ml_service.py: the feature vectors                             *)
(***************************************************************************)
\* datetime.weekday() of 1 January 1970, the day timestamps are counted from
\* (Monday is 0)
EpochWeekday == 3

\* timestamp.hour and timestamp.weekday() of a timestamp in hours
hour(timestamp) == timestamp % 24

weekday(timestamp) == ((timestamp \div 24) + EpochWeekday) % 7

\* prepare_training_data under which the two time features change places
prepare_training_data_Swapped(training_readings) ==
    [i \in DOMAIN training_readings |->
        <<training_readings[i].vibration, training_readings[i].strain,
          training_readings[i].temperature,
          weekday(training_readings[i].timestamp),
          hour(training_readings[i].timestamp)>>]

\* prepare_training_data: one row of features for each reading
prepare_training_data(training_readings) ==
    [i \in DOMAIN training_readings |->
        <<training_readings[i].vibration, training_readings[i].strain,
          training_readings[i].temperature,
          hour(training_readings[i].timestamp),
          weekday(training_readings[i].timestamp)>>]

\* predict_anomaly: features = np.array([[...]]), the one row of it
predict_features(reading) ==
    <<reading.vibration, reading.strain, reading.temperature,
      hour(reading.timestamp), weekday(reading.timestamp)>>

\* the timestamps looked at: the first and last hours of a Thursday, of the
\* Sunday and the Monday after it, and of the Thursday a week later
FeatureStamps == {0, 23, 24, 95, 96, 167, 168}

FeatureReadings ==
    [vibration : {0, 5}, strain : {0, 7}, temperature : {0 - 3, 20},
     timestamp : FeatureStamps]

\* no reading is looked at
NoFeatures ==
    [reading |-> [vibration |-> 0, strain |-> 0, temperature |-> 0,
                  timestamp |-> 0],
     scored |-> <<>>, trained |-> <<>>]

\* the first reading looked at was taken at the first hour
FeaturesInit ==
    fv \in [reading : {r \in FeatureReadings : r.timestamp = 0},
            scored : {<<>>}, trained : {<<>>}]

\* what building a feature vector leaves alone
FeaturesFrame ==
    /\ UNCHANGED evalVars
    /\ UNCHANGED dispatchVars
    /\ UNCHANGED mlVars
    /\ UNCHANGED <<rq, tq, st, rd, info>>

\* predict_anomaly builds the features of the reading
FvScore ==
    /\ fv.scored = <<>>
    /\ fv' = [fv EXCEPT !.scored = <<predict_features(fv.reading)>>]
    /\ FeaturesFrame

\* a training run builds the features of the readings it selected, the
\* reading among them
FvTrain ==
    /\ fv.trained = <<>>
    /\ fv' = [fv EXCEPT !.trained = <<prepare_training_data(<<fv.reading>>)[1]>>]
    /\ FeaturesFrame

\* another reading is looked at
FvNext ==
    /\ fv.scored # <<>>
    /\ fv.trained # <<>>
    /\ \E r \in FeatureReadings :
          fv' = [reading |-> r, scored |-> <<>>, trained |-> <<>>]
    /\ FeaturesFrame

(***************************************************************************)
(* routes/api.py: get_readings                                             *)
(***************************************************************************)
\* rows of sensor_readings while the readings are queried
MaxStored == 3

\* the values of the limit parameter (request.args.get('limit', 20,
\* type=int) accepts any integer) and the date ranges, in days
Limits == {0 - 1, 0, 1, 2, 20}

DateRanges == {<<>>, <<1, 1>>, <<2, 3>>}

\* list[:n]
Slice(list, n) ==
    IF n >= 0
    THEN SubSeq(list, 1, IF n < Len(list) THEN n ELSE Len(list))
    ELSE SubSeq(list, 1, IF Len(list) + n > 0 THEN Len(list) + n ELSE 0)

\* .order_by(SensorReading.timestamp.desc()): the rows are stored with
\* increasing timestamps
Descending(rows) == [i \in 1..Len(rows) |-> rows[Len(rows) + 1 - i]]

\* SensorService.get_readings: the latest rows. A negative limit is no limit
\* for sqlite and an error for other engines; an error is caught and answers []
service_get_readings(stored, limit, engine_ok) ==
    IF limit >= 0 THEN Slice(Descending(stored), limit)
    ELSE IF engine_ok THEN Descending(stored)
    ELSE <<>>

\* SensorService.get_readings_by_date_range(start_dt, end_dt)
get_readings_by_date_range(stored, start_dt, end_dt) ==
    Descending(SelectSeq(stored,
                         LAMBDA r : r.timestamp >= start_dt /\ r.timestamp <= end_dt))

\* the body of the response of get_readings
get_readings(stored, limit, range, anomalies_only, engine_ok) ==
    LET found    == IF range # <<>>
                    THEN get_readings_by_date_range(stored, range[1], range[2] + 1)
                    ELSE service_get_readings(stored, limit, engine_ok)
        filtered == IF anomalies_only
                    THEN SelectSeq(found, LAMBDA r : r.is_anomaly)
                    ELSE found
        readings_data == Slice(filtered, limit)
    IN  [readings       |-> readings_data,
         total          |-> Len(readings_data),
         limit          |-> limit,
         anomalies_only |-> anomalies_only]

\* nothing is stored and no query has been answered
NoReadingsQuery == [stored |-> <<>>, response |-> <<>>]

\* what the readings query leaves alone
ReadingsFrame ==
    /\ UNCHANGED evalVars
    /\ UNCHANGED dispatchVars
    /\ UNCHANGED mlVars
    /\ UNCHANGED <<rq, tq, st, info, fv>>

\* a reading is stored, a day after the one before it
RdStore(is_anomaly) ==
    /\ Len(rd.stored) < MaxStored
    /\ rd' = [rd EXCEPT !.stored =
                  Append(@, [id |-> Len(@) + 1, timestamp |-> Len(@) + 1,
                             is_anomaly |-> is_anomaly])]
    /\ ReadingsFrame

\* GET /api/readings
RdQuery(limit, range, anomalies_only, engine_ok) ==
    /\ rd' = [rd EXCEPT !.response =
                  <<get_readings(rd.stored, limit, range, anomalies_only,
                                 engine_ok)>>]
    /\ ReadingsFrame

\* no readings query, no get_model_info and no feature vector is looked at
ReadingsIdle == rd = NoReadingsQuery

InfoIdle == info = NoInfo

FeaturesIdle == fv = NoFeatures

QueriesIdle == ReadingsIdle /\ InfoIdle /\ FeaturesIdle

vars ==
    <<ev_reading, ev_result, now, config, readings, alert_logs, pc, call, handled,
      ncalls, recent_count, ml_models, svc, fitted, runs, mlpc, mc, ml_result,
      mlcalls, rq, tq, st, rd, info, fv>>

\* what a step of one part of the program leaves alone
EvalOnly == EvalFrame /\ UNCHANGED rq

DispatchOnly == DispatchFrame /\ UNCHANGED rq

MLOnly == MLFrame /\ UNCHANGED rq

\* one request to sensor_data
RequestNext ==
    \/ ReqNew
    \/ \E ok \in BOOLEAN : ReqSave(ok)
    \/ ReqService
    \/ ReqScore
    \/ ReqScoring
    \/ \E ok \in BOOLEAN, pair \in ScoredPairs : ReqUpdate(ok, pair)
    \/ ReqThresholds
    \/ \E ok \in BOOLEAN : ReqCommit(ok)
    \/ ReqDispatch
    \/ ReqDispatching
    \/ ReqDispatched
    \/ ReqRespond

\* the steps of the calls of check_and_send_alerts made by the workers ws
DispatchNextOf(ws) ==
    \/ \E w \in ws, r \in ReadingIds, l \in AlertLevels \cup {"normal"} :
           Begin(w, r, l) /\ DispatchOnly
    \/ \E w \in ws, q \in BOOLEAN : CheckFatigue(w, q) /\ DispatchOnly
    \/ \E w \in ws, g \in BOOLEAN, c \in BOOLEAN : SendEmail(w, g, c) /\ DispatchOnly
    \/ \E w \in ws, g \in BOOLEAN, c \in BOOLEAN : SendSms(w, g, c) /\ DispatchOnly
    \/ \E w \in ws, c \in BOOLEAN : MarkSent(w, c) /\ DispatchOnly
    \/ Tick /\ DispatchOnly

\* workers call check_and_send_alerts at any time
DispatchNext == DispatchNextOf(Workers)

\* one worker: the calls of check_and_send_alerts never overlap
SeqDispatchNext == DispatchNextOf({"w1"})

EvalNext ==
    \/ Evaluate /\ EvalOnly
    \/ NextReading /\ EvalOnly

\* the steps of the calls of the MLService made by the workers ws
MLNextOf(ws) ==
    \/ SaveReading /\ MLOnly
    \/ Expire /\ MLOnly
    \/ NewService /\ MLOnly
    \/ Advance /\ MLOnly
    \/ \E w \in ws, t \in ModelTypes : StartTrain(w, t) /\ MLOnly
    \/ \E w \in ws : StartPredict(w) /\ MLOnly
    \/ \E w \in ws, q \in BOOLEAN : StartRetrain(w, q) /\ MLOnly
    \/ \E w \in ws : TrainQuery(w) /\ MLOnly
    \/ \E w \in ws : ScalerNew(w) /\ MLOnly
    \/ \E w \in ws, ok \in BOOLEAN : ScalerFit(w, ok) /\ MLOnly
    \/ \E w \in ws : ModelNew(w) /\ MLOnly
    \/ \E w \in ws, ok \in BOOLEAN : ModelFit(w, ok) /\ MLOnly
    \/ \E w \in ws, ok \in BOOLEAN : TrainSave(w, ok) /\ MLOnly
    \/ \E w \in ws, ok \in BOOLEAN : Deactivate(w, ok) /\ MLOnly
    \/ \E w \in ws : PredictScale(w) /\ MLOnly
    \/ \E w \in ws : PredictLabel(w) /\ MLOnly
    \/ \E w \in ws : PredictScore(w) /\ MLOnly

\* workers call the MLService at any time
MLNext == MLNextOf(Workers)

\* one worker: the calls of the MLService never overlap
SeqMLNext == MLNextOf({"w1"})

\* no reading is being evaluated
EvalIdle ==
    /\ ev_reading = [vibration |-> 0, strain |-> 0, temperature |-> 0]
    /\ ev_result = <<>>

\* the audit log plays no part while models are trained or readings evaluated
DispatchIdle ==
    /\ DispatchInit
    /\ config = [MAIL_USERNAME |-> FALSE, twilio_client |-> FALSE]
    /\ alert_logs = <<>>

\* no request is being handled
RequestIdle == rq = NoRequest

\* no training query is looked at
TrainQueryIdle == tq = NoTrainQuery

InitEval ==
    EvalInit /\ DispatchIdle /\ MLInit /\ RequestIdle /\ TrainQueryIdle
        /\ StatsIdle /\ QueriesIdle

InitDispatch ==
    DispatchInit /\ EvalIdle /\ MLInit /\ RequestIdle /\ TrainQueryIdle
        /\ StatsIdle /\ QueriesIdle

InitReopen ==
    ReopenInit /\ EvalIdle /\ MLInit /\ RequestIdle /\ TrainQueryIdle
        /\ StatsIdle /\ QueriesIdle

InitML ==
    MLInit /\ DispatchIdle /\ EvalIdle /\ RequestIdle /\ TrainQueryIdle
        /\ StatsIdle /\ QueriesIdle

InitRequest ==
    RequestInit /\ DispatchInit /\ TrainQueryIdle /\ StatsIdle /\ QueriesIdle

InitTrainQuery ==
    TrainQueryIdle /\ MLInit /\ DispatchIdle /\ EvalIdle /\ RequestIdle
        /\ StatsIdle /\ QueriesIdle

\* check_thresholds applied to one reading after another
SpecEval == InitEval /\ [][EvalNext]_vars

\* two workers dispatching alerts
SpecDispatch == InitDispatch /\ [][DispatchNext]_vars

\* one worker dispatching alerts
SpecDispatchSeq == InitDispatch /\ [][SeqDispatchNext]_vars

\* workers call check_and_send_alerts while the fatigue gate is shut
SpecReopen == InitReopen /\ [][DispatchNext]_vars

\* two workers training and scoring with one MLService
SpecML == InitML /\ [][MLNext]_vars

\* one worker training and scoring
SpecMLSeq == InitML /\ [][SeqMLNext]_vars

\* one request to sensor_data
SpecRequest == InitRequest /\ [][RequestNext]_vars

\* readings are stored, days pass, and train_isolation_forest is run
SpecTrainQuery == InitTrainQuery /\ [][TrainQueryNext]_vars

InitStats ==
    StatsInit /\ EvalIdle /\ MLInit /\ RequestIdle /\ TrainQueryIdle /\ QueriesIdle

StatsNext ==
    \/ StatsBegin
    \/ \E ok \in BOOLEAN : StatsQuery(ok)
    \/ StatsReturn

\* one worker dispatches alerts whose commits succeed
StatsDispatchNext ==
    \/ \E r \in ReadingIds, l \in AlertLevels : Begin("w1", r, l) /\ DispatchOnly
    \/ CheckFatigue("w1", TRUE) /\ DispatchOnly
    \/ \E g \in BOOLEAN : SendEmail("w1", g, TRUE) /\ DispatchOnly
    \/ \E g \in BOOLEAN : SendSms("w1", g, TRUE) /\ DispatchOnly
    \/ MarkSent("w1", TRUE) /\ DispatchOnly

InfoNext ==
    \/ \E ok \in BOOLEAN : ModelInfoRoute(ok)
    \/ \E ok \in BOOLEAN : ModelInfoOfService(ok)

\* get_model_info is called while one worker trains and scores
SpecInfo == InitML /\ [][SeqMLNext \/ InfoNext]_vars

InitFeatures ==
    FeaturesInit /\ EvalIdle /\ MLInit /\ DispatchIdle /\ RequestIdle
        /\ TrainQueryIdle /\ StatsIdle /\ ReadingsIdle /\ InfoIdle

FeaturesNext ==
    \/ FvScore
    \/ FvTrain
    \/ FvNext

\* readings are scored and trained on
SpecFeatures == InitFeatures /\ [][FeaturesNext]_vars

InitReadings ==
    ReadingsIdle /\ EvalIdle /\ MLInit /\ DispatchIdle /\ RequestIdle
        /\ TrainQueryIdle /\ StatsIdle /\ InfoIdle /\ FeaturesIdle

ReadingsNext ==
    \/ \E a \in BOOLEAN : RdStore(a)
    \/ \E l \in Limits, d \in DateRanges, a \in BOOLEAN, e \in BOOLEAN :
           RdQuery(l, d, a, e)

\* readings are stored and queried
SpecReadings == InitReadings /\ [][ReadingsNext]_vars

\* get_alert_statistics is called once while one worker dispatches alerts
SpecStats == InitStats /\ [][StatsDispatchNext \/ StatsNext]_vars

(***************************************************************************)
(* Properties of check_thresholds                                          *)
(***************************************************************************)
AtOrAbove(reading, sensor_type, floor) ==
    reading[sensor_type] >= ALERT_THRESHOLDS[sensor_type][floor]

\* every order in which the three metrics can be examined
ItemOrders ==
    {o \in [1..3 -> SensorTypes] : \A i, j \in 1..3 : o[i] = o[j] => i = j}

MessagesFor(messages, sensor_type) ==
    {i \in DOMAIN messages : messages[i].sensor = sensor_type}

\* C7: critical dominance.  If at least one metric is at or above its
\* critical floor, check_thresholds returns level critical, whatever the
\* other metrics are and in whatever order the metrics are examined.
C7_CriticalDominance ==
    (ev_result # <<>> /\ \E s \in SensorTypes : AtOrAbove(ev_reading, s, "critical"))
        => /\ ev_result[1].level = "critical"
           /\ \A o \in ItemOrders :
                  CheckThresholdsOver(o, ev_reading).level = "critical"

\* C7 witness: a critical vibration followed by a strain in the warning range
C7_Witness ==
    /\ ev_result # <<>>
    /\ AtOrAbove(ev_reading, "vibration", "critical")
    /\ AtOrAbove(ev_reading, "strain", "warning")
    /\ ~AtOrAbove(ev_reading, "strain", "critical")
    /\ ev_result[1].level = "critical"

C9_NormalAndWarningLevels ==
    ev_result # <<>> =>
        LET r        == ev_result[1]
            someWarn == \E s \in SensorTypes : AtOrAbove(ev_reading, s, "warning")
            someCrit == \E s \in SensorTypes : AtOrAbove(ev_reading, s, "critical")
        IN  /\ (r.level = "normal" /\ r.messages = <<>>) <=> ~someWarn
            /\ r.level = "normal" => r.messages = <<>>
            /\ r.level = "warning" <=> (someWarn /\ ~someCrit)

\* C9 witness: two metrics exactly on their warning floors, none critical
C9_Witness ==
    /\ ev_result # <<>>
    /\ ev_reading.vibration = ALERT_THRESHOLDS.vibration.warning
    /\ ev_reading.temperature = ALERT_THRESHOLDS.temperature.warning
    /\ ~AtOrAbove(ev_reading, "strain", "warning")
    /\ ev_result[1].level = "warning"
    /\ Len(ev_result[1].messages) = 2

(***************************************************************************)
(* Properties of check_and_send_alerts                                     *)
(***************************************************************************)
SendPath == {"email", "sms", "mark"}

\* the rows of the audit log written for a reading
RowsFor(logs, r) == {k \in DOMAIN logs : logs[k].reading_id = r}

\* the successful rows of a severity that lie within the trailing hour
SuccessfulWithinHour(alert_level) ==
    Cardinality({k \in DOMAIN alert_logs :
                    /\ alert_logs[k].success
                    /\ alert_logs[k].alert_level = alert_level
                    /\ now - alert_logs[k].sent_at <= FatigueHours})

\* worker w gets past the two early returns for reading r in this step
Enters(w, r) == pc[w] = "idle" /\ pc'[w] # "idle" /\ call'[w].reading = r

\* C1: idempotence.  With calls that do not overlap, once a call for a
\* reading has passed the fatigue gate and returned its delivery results, no
\* later call for that reading gets past the early returns and no further
\* row is written for it: the calls together make one set of attempts.
C1_SecondDispatchIsNoOp ==
    [][\A r \in ReadingIds :
          handled[r] =>
              /\ RowsFor(alert_logs', r) = RowsFor(alert_logs, r)
              /\ \A w \in Workers : ~(pc'[w] # "idle" /\ call'[w].reading = r)]_vars

\* C1 witness: the first call delivered and returned, the second call for the
\* same reading returned at once
C1_Witness ==
    \E r \in ReadingIds :
        /\ handled[r]
        /\ ncalls = 2
        /\ RowsFor(alert_logs, r) # {}
        /\ call["w1"].result = "Alert already sent for this reading"

\* C2: alert_sent never returns to false, and while it is true no call for
\* the reading, at any level, gets past the early returns; rows are written
\* for a reading only by a worker that is past them.
C2_SentIsFinal ==
    [][\A r \in ReadingIds :
          /\ readings[r].alert_sent =>
                /\ readings'[r].alert_sent
                /\ \A w \in Workers : ~Enters(w, r)
          /\ RowsFor(alert_logs', r) # RowsFor(alert_logs, r) =>
                \E w \in Workers : pc[w] \in SendPath /\ call[w].reading = r]_vars

\* C2 witness: a call for a reading whose alert_sent is true has returned
C2_Witness ==
    \E r \in ReadingIds, w \in Workers :
        /\ readings[r].alert_sent
        /\ pc[w] = "idle"
        /\ call[w].result = "Alert already sent for this reading"

\* C3 as claimed: of two concurrent calls for the same reading at most one is
\* past the alert_sent check and delivering.
C3_OneDeliveryPerReading ==
    \A w, u \in Workers :
        (w # u /\ pc[w] \in SendPath /\ pc[u] \in SendPath)
            => call[w].reading # call[u].reading

\* the step in which worker w leaves the fatigue gate suppressed
Suppressed(w) ==
    /\ pc'[w] = "idle"
    /\ call'[w].result = "Alert fatigue protection activated"
    /\ alert_logs' = alert_logs
    /\ readings' = readings

C5_OneActivePerKind ==
    \A t \in ModelTypes : Cardinality(ActiveRows(ml_models, t)) <= 1

\* C6 as claimed: a call of predict_anomaly that has scaled and labelled the
\* features used a scaler and a model made by the same training run, and
\* takes its score from that same model.
C6_ScoreUsesOnePair ==
    \A w \in Workers :
        mlpc[w] = "p_score" =>
            /\ mc[w].scaler = mc[w].predicted_by
            /\ svc.model = mc[w].predicted_by

\* the step in which worker w finds too few rows for training
TooFewRows(w) ==
    /\ mlpc[w] = "t_query"
    /\ mlpc'[w] # "t_query"
    /\ recent_count < 50

\* C10: a training run that finds fewer than 50 rows returns at once, writes
\* no row of ml_models and leaves self.model and self.scaler as they were;
\* train_isolation_forest and train_one_class_svm called for themselves, and
\* through retrain_if_needed, return "Insufficient training data".
C10_InsufficientDataChangesNothing ==
    [][\A w \in Workers :
          TooFewRows(w) =>
              /\ mlpc'[w] = "idle"
              /\ ml_models' = ml_models
              /\ svc' = svc
              /\ fitted' = fitted
              /\ mc[w].op \in {"train", "retrain"}
                    => ml_result' = "Insufficient training data"]_vars

\* C10 witness: with a fitted model and scaler in memory and a row in
\* ml_models, a training run found 49 rows and returned the error
C10_Witness ==
    /\ ml_result = "Insufficient training data"
    /\ recent_count = 49
    /\ svc.model # 0
    /\ svc.model \in fitted.model
    /\ svc.scaler \in fitted.scaler
    /\ Len(ml_models) = 1

\* C11 as claimed: a kind that has one active row of ml_models has one after
\* every step of a training run; no reader finds none, or two.
C11_SupersedeIsAtomic ==
    [][\A t \in ModelTypes :
          Cardinality(ActiveRows(ml_models, t)) = 1
              => Cardinality(ActiveRows(ml_models', t)) = 1]_vars

\* C12 as claimed: with calls that do not overlap, a call of predict_anomaly
\* adds a row to ml_models only when no IsolationForest row is active.
C12_ScoreTrainsOnlyWithoutActiveModel ==
    [][\A w \in Workers :
          (mc[w].op = "predict" /\ Len(ml_models') > Len(ml_models))
              => ActiveRows(ml_models, "IsolationForest") = {}]_vars

\* the step in which the call of predict_anomaly made by worker w returns
ScoreReturns(w) == mc[w].op = "predict" /\ mlpc[w] # "idle" /\ mlpc'[w] = "idle"

RetrainIsDue ==
    LET active == ActiveRows(ml_models, "IsolationForest")
    IN  \/ active = {}
        \/ \E k \in active :
              /\ \A j \in active : ml_models[j].created_at <= ml_models[k].created_at
              /\ now - ml_models[k].created_at > 24

\* the step in which worker w calls retrain_if_needed
RetrainCalled(w) ==
    /\ mlpc[w] = "idle"
    /\ mlcalls' = mlcalls + 1
    /\ mc'[w].op = "retrain" \/ (mlpc' = mlpc /\ mc' = mc)

\* the step leaves the rows of ml_models and the model in memory alone
NoModelChange == ml_models' = ml_models /\ svc' = svc /\ fitted' = fitted

\* C14 as claimed: retrain_if_needed goes on to train exactly when it is due,
\* and otherwise returns "Model is up to date" and changes nothing.
C14_RetrainIffDue ==
    [][\A w \in Workers :
          /\ RetrainCalled(w) =>
                IF RetrainIsDue
                THEN mlpc'[w] \in {"t_query", "r_deactivate"}
                ELSE /\ mlpc'[w] = "idle"
                     /\ ml_result' = "Model is up to date"
                     /\ NoModelChange
          /\ (mlpc[w] = "r_deactivate" /\ mlpc'[w] # "r_deactivate")
                => mlpc'[w] = "t_query"]_vars

\* the step in which retrain_if_needed returns the error of the store
RetrainStoreError(w) == mlpc'[w] = "idle" /\ ml_result' = "error"

\* C14 amended: unless the query of ml_models or the commit of the
\* deactivation raises, retrain_if_needed goes on to train exactly when it is
\* due, and otherwise returns "Model is up to date" and changes nothing; when
\* the store raises it returns the error and trains nothing.
C14_RetrainIffDueUnlessStoreFails ==
    [][\A w \in Workers :
          /\ RetrainCalled(w) =>
                IF RetrainStoreError(w) THEN NoModelChange
                ELSE IF RetrainIsDue
                THEN mlpc'[w] \in {"t_query", "r_deactivate"}
                ELSE /\ mlpc'[w] = "idle"
                     /\ ml_result' = "Model is up to date"
                     /\ NoModelChange
          /\ (mlpc[w] = "r_deactivate" /\ mlpc'[w] # "r_deactivate")
                => IF RetrainStoreError(w) THEN NoModelChange
                   ELSE mlpc'[w] = "t_query"]_vars

\* C14 witness: a model exactly 24 hours old was found up to date
C14_Witness ==
    /\ ml_result = "Model is up to date"
    /\ \E k \in ActiveRows(ml_models, "IsolationForest") :
          now - ml_models[k].created_at = 24
    /\ ~RetrainIsDue

(***************************************************************************)
(* Properties of the deliveries of check_and_send_alerts                   *)
(***************************************************************************)
\* the recipients of a channel
RecipientsOf(alert_type) ==
    IF alert_type = "email" THEN email_recipients ELSE sms_recipients

\* worker w makes one iteration of the email or of the SMS loop in this step
Attempts(w) == pc[w] \in {"email", "sms"} /\ call'[w] # call[w]

\* C15 as claimed: every iteration of the email loop and of the SMS loop
\* appends exactly one row to alert_logs, for the reading, channel, level and
\* recipient of the attempt, with an error recorded exactly when it failed.
C15_EveryAttemptRecorded ==
    [][\A w \in Workers :
          (Attempts(w) \/ (pc[w] \in {"email", "sms"} /\ pc'[w] # pc[w])) =>
              /\ Len(alert_logs') = Len(alert_logs) + 1
              /\ LET row == alert_logs'[Len(alert_logs')]
                 IN  /\ row.reading_id = call[w].reading
                     /\ row.alert_type = pc[w]
                     /\ row.alert_level = call[w].level
                     /\ row.recipient = RecipientsOf(pc[w])[call[w].i]
                     /\ row.has_error = ~row.success]_vars

\* C16: a delivery that fails never ends the call and never skips what is
\* left: after the email loop a critical call goes on to the SMS loop, and
\* every call that is past the fatigue gate reaches the marking of the
\* reading, whatever the gateways answered.
C16_FailureIsolation ==
    [][\A w \in Workers :
          /\ pc[w] \in {"email", "sms"} =>
                /\ pc'[w] \in SendPath
                /\ call'[w].result # "raised"
          /\ (pc[w] = "email" /\ pc'[w] # "email" /\ call[w].level = "critical")
                => pc'[w] = "sms"
          /\ (pc[w] = "sms" /\ pc'[w] # "sms") => pc'[w] = "mark"]_vars

\* C16 witness: the email of a critical call failed, its SMS was sent all the
\* same, and the call returned its results
C16_Witness ==
    \E r \in ReadingIds, w \in Workers :
        /\ call[w].result = "alerts_sent"
        /\ readings[r].alert_sent
        /\ \E k \in RowsFor(alert_logs, r) :
              alert_logs[k].alert_type = "email" /\ ~alert_logs[k].success
        /\ \E k \in RowsFor(alert_logs, r) :
              alert_logs[k].alert_type = "sms" /\ alert_logs[k].success

\* C17: a call that is past the fatigue gate returns only after the marking,
\* and when it returns its results alert_sent of the reading is true,
\* whether the deliveries succeeded or failed.
C17_MarkedWhateverTheOutcome ==
    [][\A w \in Workers :
          (pc[w] \in SendPath /\ pc'[w] = "idle" /\ call'[w].result # "raised")
              => /\ pc[w] = "mark"
                 /\ readings'[call[w].reading].alert_sent]_vars

\* C17 witness: every delivery of a critical call failed, on both channels,
\* and the reading is marked
C17_Witness ==
    \E r \in ReadingIds, w \in Workers :
        /\ call[w].result = "alerts_sent"
        /\ readings[r].alert_sent
        /\ Cardinality(RowsFor(alert_logs, r)) = 2
        /\ \A k \in RowsFor(alert_logs, r) : ~alert_logs[k].success

\* C18: the SMS loop is entered exactly by the critical calls: a warning call
\* goes from the email loop to the marking and no row of channel sms has
\* level warning; a critical call goes from the email loop to the SMS loop.
C18_ChannelsBySeverity ==
    [][/\ \A k \in DOMAIN alert_logs' :
             alert_logs'[k].alert_type = "sms" => alert_logs'[k].alert_level = "critical"
       /\ \A w \in Workers :
             /\ pc'[w] = "sms" => call'[w].level = "critical"
             /\ (pc[w] = "email" /\ pc'[w] # "email") =>
                   pc'[w] = IF call[w].level = "critical" THEN "sms" ELSE "mark"]_vars

\* C18 witness: with both channels configured a warning call has delivered
\* its email and returned, and the log holds no row of channel sms
C18_Witness ==
    \E r \in ReadingIds, w \in Workers :
        /\ config.twilio_client
        /\ call[w].result = "alerts_sent"
        /\ readings[r].alert_sent
        /\ \E k \in RowsFor(alert_logs, r) :
              alert_logs[k].alert_level = "warning" /\ alert_logs[k].success
        /\ \A k \in DOMAIN alert_logs : alert_logs[k].alert_type = "email"

\* the step in which worker w calls check_and_send_alerts with level normal
NormalCall(w) ==
    /\ pc[w] = "idle"
    /\ ncalls' = ncalls + 1
    /\ call'[w].level = "normal"
    /\ \A u \in Workers \ {w} : call'[u] = call[u]

\* C19: a call with level normal returns "No alerts needed" at once, for a
\* reading whether marked or not and whatever the audit log holds: no worker
\* starts delivering, no row is written and alert_sent is not changed.
C19_NormalIsNoOp ==
    [][\A w \in Workers :
          NormalCall(w) =>
              /\ call'[w].result = "No alerts needed"
              /\ pc' = pc
              /\ alert_logs' = alert_logs
              /\ readings' = readings]_vars

\* C19 witness: a normal call returned for a reading that is marked, with
\* the fatigue cap reached in the audit log
C19_Witness ==
    \E w \in Workers, l \in AlertLevels :
        /\ call[w].result = "No alerts needed"
        /\ readings[call[w].reading].alert_sent
        /\ SuccessfulWithinHour(l) >= 5


(***************************************************************************)
(* Properties of sensor_data                                               *)
(***************************************************************************)
\* the request has been answered
Answered == rq.response # <<>>

\* the answer carries the anomaly fields of the reading and the level and
\* the messages of check_thresholds
CarriesFields(response) ==
    /\ response.status = 200
    /\ response.anomaly \in {"scored", "default"}
    /\ response.alert_level = check_thresholds(ev_reading).level
    /\ response.alert_messages = check_thresholds(ev_reading).messages

\* C20 as stated: whatever fails while a reading is processed (the scorer,
\* the store or a gateway), the answer of the request carries the anomaly
\* fields of the reading (the scored pair, or the false/zero defaults) and
\* the alert level and the messages that check_thresholds produced for it.
C20_AnswerCarriesFieldsAndLevel ==
    Answered => CarriesFields(rq.response[1])

\* C20: every request is answered by returning, and the answer carries the
\* anomaly fields and the level and messages of check_thresholds unless the
\* store failed while the reading was saved, while its level was committed
\* or while it was marked as alerted; then, and only then, the answer is the
\* error with status 500. No failure of the scorer or of a gateway makes
\* the answer an error.
C20_AnswerCarriesFieldsUnlessStoreFails ==
    [][/\ (call'[RequestWorker].result = "raised"
              /\ call[RequestWorker].result # "raised")
          => pc[RequestWorker] = "mark"
       /\ (~Answered /\ Answered') =>
             \/ CarriesFields(rq'.response[1])
             \/ /\ rq'.response[1] = ErrorResponse
                /\ \/ rq.pc \in {"save", "commit"}
                   \/ /\ rq.pc = "dispatching"
                      /\ call[RequestWorker].result = "raised"]_vars

\* a request whose training run failed and whose deliveries all failed is
\* answered with the default anomaly fields and the critical level
C20_Witness ==
    /\ Answered
    /\ CarriesFields(rq.response[1])
    /\ rq.response[1].anomaly = "default"
    /\ rq.response[1].alert_level = "critical"
    /\ runs > 0
    /\ ml_models = <<>>
    /\ RowsFor(alert_logs, RequestReading) # {}
    /\ \A k \in RowsFor(alert_logs, RequestReading) : ~alert_logs[k].success

(***************************************************************************)
(* Properties of the order of the steps of sensor_data                     *)
(***************************************************************************)
\* the scorer of the request returns out of a training run, which has
\* therefore failed: a run that succeeds goes on to score
TrainingFails ==
    /\ mlpc[RequestWorker] \in {"t_query", "t_scaler_fit", "t_model_fit", "t_save"}
    /\ mlpc'[RequestWorker] = "idle"

\* C21: in every request the scorer is called first, check_thresholds is
\* applied only after the scorer has returned, and the dispatch is called
\* only after check_thresholds.  check_thresholds is never skipped because
\* scoring failed: a failing training run or prediction returns the default
\* pair, the request then goes on to check_thresholds with is_anomaly false
\* and anomaly_score 0.0, and the level and messages are those of the raw
\* values of the reading.
C21_ScorerEvaluatorDispatcher ==
    [][/\ mlcalls' # mlcalls => (rq.pc = "score" /\ ev_result = <<>> /\ ncalls = 0)
       /\ ev_result' # ev_result =>
             /\ rq.pc = "thresholds"
             /\ mlcalls > 0 /\ mlpc[RequestWorker] = "idle" /\ ncalls = 0
             /\ ev_result' = <<check_thresholds(ev_reading)>>
       /\ ncalls' # ncalls => (rq.pc = "dispatch" /\ ev_result # <<>>)
       /\ TrainingFails => ml_result' = "default"
       /\ (rq.pc = "scoring" /\ rq'.pc # "scoring") =>
             /\ rq'.pc = "thresholds"
             /\ rq'.anomaly \in {"scored", "default"}
             /\ ml_result # "scored" => rq'.anomaly = "default"]_vars

\* a request whose training run failed has been evaluated at the warning
\* level and is being dispatched, its anomaly fields at the defaults
C21_Witness ==
    /\ rq.pc = "dispatching"
    /\ runs > 0 /\ ml_models = <<>>
    /\ ml_result = "default"
    /\ rq.anomaly = "default"
    /\ ev_result = <<check_thresholds(ev_reading)>>
    /\ ev_result[1].level = "warning"

(***************************************************************************)
(* Properties of the audit log                                             *)
(***************************************************************************)
\* C22: the audit log is append-only.  Every step of a dispatch, of a send
\* and of the fatigue query leaves every row that was written before in its
\* place with all its fields unchanged; a step at most adds rows at the end.
C22_AuditLogAppendOnly ==
    [][/\ Len(alert_logs') >= Len(alert_logs)
       /\ \A k \in DOMAIN alert_logs : alert_logs'[k] = alert_logs[k]]_vars

\* the rows of the earlier readings are still there after rows were added
\* for every reading that was dispatched
C22_Witness ==
    /\ Len(alert_logs) >= Len(EarlierLogs("warning")) + NumReadings
    /\ \E l \in AlertLevels :
          SubSeq(alert_logs, 1, Len(EarlierLogs(l))) = EarlierLogs(l)
    /\ \A r \in ReadingIds : RowsFor(alert_logs, r) # {}

(***************************************************************************)
(* Properties of the count of the fatigue gate                             *)
(***************************************************************************)
\* worker w leaves the fatigue gate with a denial
Denied(w) ==
    /\ pc[w] = "fatigue" /\ pc'[w] # "fatigue"
    /\ call'[w].result = "Alert fatigue protection activated"

\* worker w leaves the fatigue gate and goes on to the deliveries
Allowed(w) ==
    /\ pc[w] = "fatigue" /\ pc'[w] # "fatigue"
    /\ call'[w].result # "Alert fatigue protection activated"

\* C23 as stated: the gate denies exactly when at least 5 rows of the
\* queried level with success = true lie within the trailing hour; so with
\* 4 such rows (the 5th attempt) it allows and with 5 (the 6th) it denies,
\* whatever failed rows, rows of the other level and older rows there are.
C23_GateCountsExactly ==
    [][\A w \in Workers :
          /\ Denied(w) => SuccessfulWithinHour(call[w].level) >= FatigueCap
          /\ Allowed(w) => SuccessfulWithinHour(call[w].level) < FatigueCap]_vars

\* C23: the gate denies only when at least 5 rows of the queried level with
\* success = true lie within the trailing hour (failed rows, rows of the
\* other level and older rows never cause a denial), and it allows with 5 or
\* more such rows only when its query failed.
C23_GateCountsExactlyUnlessQueryFails ==
    [][\A w \in Workers :
          /\ Denied(w) => SuccessfulWithinHour(call[w].level) >= FatigueCap
          /\ Allowed(w) =>
                \/ SuccessfulWithinHour(call[w].level) < FatigueCap
                \/ call'[w].gate = "error"]_vars

\* a critical dispatch has been denied with exactly 5 successful critical
\* rows in the hour, while the log also holds a failed critical row
C23_Witness ==
    \E w \in Workers :
        /\ call[w].result = "Alert fatigue protection activated"
        /\ SuccessfulWithinHour("critical") = FatigueCap
        /\ \E k \in DOMAIN alert_logs :
              alert_logs[k].alert_level = "critical" /\ ~alert_logs[k].success

(***************************************************************************)
(* Properties of a suppressed reading                                      *)
(***************************************************************************)
\* C24: a denial of the fatigue gate ends the call: the worker is idle and
\* holds nothing of the call, no row is written and no reading is marked,
\* and from then on work for a reading starts only with a fresh call of
\* check_and_send_alerts and a reading is marked only by a call at its mark
\* step.  A call that reaches the gate with fewer than 5 successful rows of
\* its level in the trailing hour goes on to the deliveries, and when it
\* returns its list of results the reading is marked.
C24_SuppressedUntilFreshCall ==
    [][/\ \A w \in Workers :
             /\ Denied(w) =>
                   /\ pc'[w] = "idle"
                   /\ call'[w] = Returned("Alert fatigue protection activated")
                   /\ readings' = readings
                   /\ alert_logs' = alert_logs
             /\ (pc[w] = "idle" /\ pc'[w] # "idle") => ncalls' = ncalls + 1
             /\ (/\ pc[w] = "fatigue" /\ pc'[w] # "fatigue"
                 /\ SuccessfulWithinHour(call[w].level) < FatigueCap)
                    => (pc'[w] = "email" /\ call'[w].result = "pending")
             /\ (pc[w] = "mark" /\ call'[w].result = "alerts_sent")
                    => readings'[call[w].reading].alert_sent
       /\ \A r \in ReadingIds :
             readings'[r] # readings[r] =>
                 \E w \in Workers : pc[w] = "mark" /\ call[w].reading = r]_vars

\* one call was denied while the gate was shut; after the rows that shut it
\* had left the trailing hour a fresh call at that level delivered and marked
\* its reading
C24_Witness ==
    \E l \in AlertLevels, r \in ReadingIds :
        /\ call["w1"].result = "Alert fatigue protection activated"
        /\ call["w2"].result = "alerts_sent"
        /\ ncalls = 2
        /\ SubSeq(alert_logs, 1, FatigueCap) = FullLog(l)
        /\ Len(alert_logs) > FatigueCap
        /\ \A k \in (FatigueCap + 1)..Len(alert_logs) :
              /\ alert_logs[k].reading_id = r
              /\ alert_logs[k].alert_level = l
              /\ alert_logs[k].sent_at > FatigueHours
        /\ readings[r].alert_sent

(***************************************************************************)
(* Properties of the training query                                        *)
(***************************************************************************)
\* the rows that lie within the last 7 days, by timestamp
InLastSevenDays(t) == now - t <= TrainingHorizon

\* the number of rows within the last 7 days
RowsInHorizon ==
    SumOver([t \in Stamps |-> IF InLastSevenDays(t) THEN tq.rows[t] ELSE 0], Stamps)

\* C25: a training run selects rows of the last 7 days only, all of them
\* when they are at most 1000 and otherwise the 1000 with the latest
\* timestamps; it goes on past the test of the size if and only if at least
\* 50 rows are selected; and the MLModel row it writes has a
\* training_data_size equal to the number of rows selected, which lies
\* between 50 and 1000.
C25_TrainingWindow ==
    [][tq'.trainings # tq.trainings =>
          LET sel == tq'.selected
              n   == Size(sel)
          IN  /\ \A t \in Stamps :
                    /\ sel[t] <= tq.rows[t]
                    /\ sel[t] > 0 => InLastSevenDays(t)
              /\ n = IF RowsInHorizon < ML_TRAINING_DATA_SIZE
                     THEN RowsInHorizon ELSE ML_TRAINING_DATA_SIZE
              /\ \A t \in Stamps, s \in Stamps :
                    (InLastSevenDays(t) /\ s > t /\ sel[s] < tq.rows[s])
                        => sel[t] = 0
              /\ (tq'.result # "Insufficient training data") <=> (n >= 50)
              /\ tq'.result = "trained" => ml_models' # ml_models
              /\ ml_models' # ml_models =>
                    /\ ml_models' = Append(ml_models, ml_models'[Len(ml_models')])
                    /\ ml_models'[Len(ml_models')].training_data_size = n
                    /\ n >= 50 /\ n <= 1000]_vars

\* a run has trained on 1000 rows: all rows of the newest timestamp and a
\* part of those of an older one, while more rows lay within the 7 days and
\* some rows were older than 7 days
C25_Witness ==
    /\ tq.result = "trained"
    /\ Len(ml_models) = 1
    /\ ml_models[1].training_data_size = ML_TRAINING_DATA_SIZE
    /\ ml_models[1].created_at = now
    /\ RowsInHorizon > ML_TRAINING_DATA_SIZE
    /\ \E t \in Stamps : tq.selected[t] > 0 /\ tq.selected[t] < tq.rows[t]
    /\ \E t \in Stamps : tq.selected[t] > 0 /\ tq.selected[t] = tq.rows[t]
    /\ \E t \in Stamps : ~InLastSevenDays(t) /\ tq.rows[t] > 0

(***************************************************************************)
(* Properties of the row of the reading                                    *)
(***************************************************************************)
\* the columns of the row that hold what was measured, and when
Measured(row) ==
    <<row.id, row.timestamp, row.vibration, row.strain, row.temperature>>

\* the columns the scorer writes
AnomalyFields(row) == <<row.is_anomaly, row.anomaly_score>>

\* the steps of the request, by the part of the program that takes them
ScorerStep == rq.pc \in {"service", "score", "scoring"}
EvaluatorStep == rq.pc = "thresholds"
LevelStep == rq.pc = "commit"
DispatcherStep == rq.pc \in {"dispatch", "dispatching"}

\* C26: once the row of a reading is stored it is never deleted and its id,
\* timestamp, vibration, strain and temperature never change.  The steps of
\* the scorer change at most is_anomaly and anomaly_score; check_thresholds
\* changes nothing; the alert level is set, from the result of
\* check_thresholds, by the commit that follows it; the steps of the
\* dispatch change at most alert_sent; and no other row is touched.
C26_PipelineFrame ==
    [][rq.row # <<>> =>
          /\ rq'.row # <<>>
          /\ DOMAIN readings' = DOMAIN readings
          /\ Measured(rq'.row[1]) = Measured(rq.row[1])
          /\ Measured(rq.row[1]) =
                <<RequestReading, now, ev_reading.vibration, ev_reading.strain,
                  ev_reading.temperature>>
          /\ ev_reading' = ev_reading
          /\ \A r \in ReadingIds \ {RequestReading} : readings'[r] = readings[r]
          /\ ScorerStep =>
                /\ rq'.row[1].alert_level = rq.row[1].alert_level
                /\ readings' = readings
          /\ EvaluatorStep => (rq'.row = rq.row /\ readings' = readings)
          /\ LevelStep =>
                /\ AnomalyFields(rq'.row[1]) = AnomalyFields(rq.row[1])
                /\ readings' = readings
                /\ rq'.row[1].alert_level \in
                      {rq.row[1].alert_level, check_thresholds(ev_reading).level}
          /\ DispatcherStep => rq'.row = rq.row
          /\ ~(ScorerStep \/ EvaluatorStep \/ LevelStep \/ DispatcherStep) =>
                (rq'.row = rq.row /\ readings' = readings)]_vars

\* a reading scored as an anomaly, evaluated as critical and marked as
\* alerted holds the measurements it was stored with
C26_Witness ==
    /\ rq.pc = "done"
    /\ rq.row # <<>>
    /\ rq.row[1].is_anomaly
    /\ rq.row[1].alert_level = "critical"
    /\ readings[RequestReading].alert_sent
    /\ rq.row[1].vibration = ev_reading.vibration
    /\ rq.response # <<>>
    /\ rq.response[1].status = 200

(***************************************************************************)
(* Properties of check_thresholds within a request                         *)
(***************************************************************************)
\* the three measurements of a reading, and nothing else of it
RawValues(reading) ==
    [vibration   |-> reading.vibration,
     strain      |-> reading.strain,
     temperature |-> reading.temperature]

StoredLevels == {"normal", "warning", "critical"}

\* the request has been answered with the row of the reading
AnsweredWithRow == Answered /\ rq.response[1].status = 200

\* C28: in every reachable state the alert_level of the stored reading is
\* normal, warning or critical, and the body of a response with status 200
\* reports one of these three values together with a boolean is_anomaly.
C28_LevelOneOfThree ==
    /\ rq.row # <<>> => rq.row[1].alert_level \in StoredLevels
    /\ AnsweredWithRow =>
          /\ rq.response[1].body.alert_level \in StoredLevels
          /\ rq.response[1].body.is_anomaly \in BOOLEAN

\* a response with status 200 reports the warning level and an anomaly
C28_Witness ==
    /\ AnsweredWithRow
    /\ rq.response[1].body.alert_level = "warning"
    /\ rq.response[1].body.is_anomaly = TRUE
    /\ rq.row[1].alert_level = "warning"

\* the fields test_sensor_data_endpoint requires in the response
RequiredFields ==
    {"vibration", "strain", "temperature", "timestamp", "is_anomaly", "alert_level"}

\* C29: the body of a response of GET /sensor-data with status 200 contains
\* all of the fields vibration, strain, temperature, timestamp, is_anomaly
\* and alert_level.
C29_ResponseHasRequiredFields ==
    AnsweredWithRow => RequiredFields \subseteq DOMAIN rq.response[1].body

\* the reading has been constructed and is not yet added to the session
Constructed == rq.pc = "save" /\ rq.obj # <<>>

\* C30: a newly constructed reading, before it is scored, evaluated or
\* dispatched, has is_anomaly = False, alert_level = 'normal' and
\* alert_sent = False, whatever its measurements are.
C30_NewReadingHasDefaults ==
    Constructed =>
        /\ rq.obj[1].is_anomaly = <<FALSE>>
        /\ rq.obj[1].alert_level = <<"normal">>
        /\ rq.obj[1].alert_sent = <<FALSE>>

(***************************************************************************)
(* Properties of the cap of the fatigue gate                               *)
(***************************************************************************)
\* worker w, whose query of the audit log succeeded and allowed the call,
\* writes a successful row
WritesSuccess(w) ==
    /\ pc[w] \in {"email", "sms"}
    /\ call[w].gate = "allowed"
    /\ Len(alert_logs') = Len(alert_logs) + 1
    /\ alert_logs'[Len(alert_logs')].success

\* the successful rows of a level within the trailing hour, after the step
SuccessfulWithinHourAfter(alert_level) ==
    Cardinality({k \in DOMAIN alert_logs' :
                    /\ alert_logs'[k].success
                    /\ alert_logs'[k].alert_level = alert_level
                    /\ now' - alert_logs'[k].sent_at <= FatigueHours})

\* C33: cap, calls one after another.  Whatever readings, levels and gateway
\* outcomes the calls have, a call that the gate allowed never writes a
\* successful row that makes the successful rows of its level within the
\* trailing hour more than 5.
C33_CapSequential ==
    [][\A w \in Workers :
          WritesSuccess(w) => SuccessfulWithinHourAfter(call[w].level) <= FatigueCap]_vars

\* C34: cap, calls at the same time.  With calls for different readings at
\* the level warning, one email recipient each, the gate of one call and the
\* writes of another never interleave so that more than 5 successful warning
\* rows lie within the trailing hour.
C34_CapConcurrentWarning ==
    [][\A w \in Workers :
          (/\ WritesSuccess(w) /\ call[w].level = "warning"
           /\ \A r \in ReadingIds : Cardinality(RowsFor(alert_logs', r)) <= 1)
              => SuccessfulWithinHourAfter("warning") <= FatigueCap]_vars

(***************************************************************************)
(* Properties of failed training runs                                      *)
(***************************************************************************)
\* the training run of a retrain_if_needed call that found the row
\* mc[w].latest overdue ends at its query with too few rows
OverdueRetrainFails(w) ==
    /\ mc[w].op = "retrain"
    /\ mc[w].latest # 0
    /\ mlpc[w] = "t_query"
    /\ mlpc'[w] = "idle"

\* C35: a retrain_if_needed call that finds the active model overdue and
\* whose training run then fails leaves that model active: a failed retrain
\* never leaves the type without an active model.
C35_FailedRetrainKeepsActive ==
    [][\A w \in Workers :
          OverdueRetrainFails(w) =>
              /\ ml_models'[mc[w].latest].is_active
              /\ ActiveRows(ml_models', "IsolationForest") # {}]_vars

\* the training run of worker w fails after its query: a fit or the commit
\* of the metadata row raises and the run is rolled back
RunFailsAfterQuery(w) ==
    /\ mlpc[w] \in {"t_scaler_fit", "t_model_fit", "t_save"}
    /\ mlpc'[w] = "idle"
    /\ ml_result' # "trained"

\* C36: a training run that fails after its data selection leaves the model
\* and the scaler of the service as they were before the run: neither is an
\* object the failed run created.
C36_FailedRunKeepsPair ==
    [][\A w \in Workers :
          RunFailsAfterQuery(w) =>
              /\ svc'.scaler # mc[w].run
              /\ svc'.model # mc[w].run]_vars

(***************************************************************************)
(* Properties of the fatigue gate when its query raises                    *)
(***************************************************************************)
\* C37: the fatigue gate fails open. When the query of the audit log raises,
\* the gate reports no fatigue and the dispatch goes on to the deliveries;
\* such a call ends, unless its last commit raises, by marking the reading
\* as sent.
C37_GateFailsOpen ==
    [][\A w \in Workers :
          /\ CheckFatigue(w, FALSE) =>
                /\ pc'[w] = "email"
                /\ call'[w].result # "Alert fatigue protection activated"
          /\ (/\ call[w].gate = "error"
              /\ pc'[w] = "idle"
              /\ call'[w].result # "raised")
                 => /\ pc[w] = "mark"
                    /\ readings'[call[w].reading].alert_sent]_vars

\* the query raised with the cap reached, and the call delivered all the same
C37_Witness ==
    \E w \in Workers :
        /\ call[w].gate = "error"
        /\ pc[w] = "mark"
        /\ Cardinality(RecentAlerts(alert_logs, call[w].level, now)
                          \ RowsFor(alert_logs, call[w].reading)) >= FatigueCap
        /\ \E k \in RowsFor(alert_logs, call[w].reading) : alert_logs[k].success

(***************************************************************************)
(* Properties of get_alert_statistics                                      *)
(***************************************************************************)
\* C38: the dictionary get_alert_statistics returns is consistent, also while
\* alerts are dispatched: failed = total - successful with
\* 0 <= successful <= total, the email and sms counts add up to the total, so
\* do the warning and critical counts, and the success rate is 0 when the
\* total is 0.
C38_StatisticsConsistent ==
    st.result # <<>> =>
        LET s == st.result[1]
        IN  /\ s.failed_alerts = s.total_alerts - s.successful_alerts
            /\ 0 <= s.successful_alerts
            /\ s.successful_alerts <= s.total_alerts
            /\ s.email_alerts + s.sms_alerts = s.total_alerts
            /\ s.warning_alerts + s.critical_alerts = s.total_alerts
            /\ s.total_alerts = 0 => s.success_rate = 0

(***************************************************************************)
(* Properties of get_model_info                                            *)
(***************************************************************************)
\* C32: get_model_info returns the active row of the type whenever the store
\* holds one, and an error only when it holds none (or when the query of the
\* store raises), whichever service instance answers.
C32_InfoReturnsActive ==
    [][info'.calls # info.calls =>
          LET active == latest_model(ml_models, "IsolationForest")
          IN  \/ info'.error = "error"
              \/ /\ active # 0
                 /\ info'.model = <<ml_models[active]>>
              \/ /\ active = 0
                 /\ info'.model = <<>>
                 /\ info'.error # "none"]_vars

(***************************************************************************)
(* Properties of the feature vectors                                       *)
(***************************************************************************)
\* vector is (vibration, strain, temperature, h, d) of the reading, with h the
\* hour of the day and d the day of the week (Monday 0) of its timestamp
IsFeatureVectorOf(vector, reading) ==
    /\ Len(vector) = 5
    /\ vector[1] = reading.vibration
    /\ vector[2] = reading.strain
    /\ vector[3] = reading.temperature
    /\ vector[4] \in 0..23
    /\ vector[5] \in 0..6
    /\ \E days \in 0..(reading.timestamp \div 24) :
          /\ reading.timestamp = 24 * days + vector[4]
          /\ (days + EpochWeekday - vector[5]) % 7 = 0

\* C39: the feature vector built for a reading at scoring time equals the one
\* built for it at training time: both are (vibration, strain, temperature,
\* hour of the timestamp in 0..23, weekday of the timestamp in 0..6), in
\* this order.
C39_SameFeatureVector ==
    /\ fv.scored # <<>> => IsFeatureVectorOf(fv.scored[1], fv.reading)
    /\ fv.trained # <<>> => IsFeatureVectorOf(fv.trained[1], fv.reading)
    /\ (fv.scored # <<>> /\ fv.trained # <<>>) => fv.scored = fv.trained

\* a reading of the last hour of a Sunday has been scored and trained on
C39_Witness ==
    /\ fv.scored # <<>>
    /\ fv.trained # <<>>
    /\ fv.reading.vibration # fv.reading.strain
    /\ fv.scored[1][4] = 23
    /\ fv.scored[1][5] = 6

(***************************************************************************)
(* Properties of get_readings                                              *)
(***************************************************************************)
\* C31: a response to a query made with anomalies_only holds only readings
\* with is_anomaly true, holds at most limit readings, and its total is the
\* number of readings it holds, whatever readings are stored.
C31_AnomaliesOnlyResponse ==
    (rd.response # <<>> /\ rd.response[1].anomalies_only) =>
        LET body == rd.response[1]
        IN  /\ \A i \in DOMAIN body.readings : body.readings[i].is_anomaly
            /\ Len(body.readings) <= body.limit
            /\ body.total = Len(body.readings)

====
